---- MODULE Spec2Model ----
(***************************************************************************)
(* Model of svt-text: decoding of SVT teletext page images into symbolic   *)
(* tiles (svt_text/fetch.py, svt_text/common.py, codegen.py) and the       *)
(* passes over them before display (svt_text/render.py).                   *)
(*                                                                         *)
(* Specifications                                                          *)
(*   Spec      : one Fetcher: _read_tile_db, then get_page calls           *)
(*   SpecTiles : get_tiles applied to bounded images (pure function)       *)
(*   SpecLoad  : _read_tile_db on bounded sequences of reference entries   *)
(*   SpecMerge : merge_rows on bounded grids (pure function)               *)
(*   SpecDH    : merge_doubleheight on pairs of tiles (pure function)      *)
(*   SpecGlyph : getboxchar and getbraille on pairs of shape ids           *)
(*   SpecInvert: invert_shape applied twice                                *)
(*   SpecRender: fgbg_fixups, remove_fg_back_and_forth and apply_shapes    *)
(*               of render_page on bounded grids                           *)
(*   SpecFixups: fgbg_fixups on short grids in every pairing of colours    *)
(***************************************************************************)
EXTENDS Integers, Sequences, FiniteSets, TLC

VARIABLES
    pc,                 \* position of the program
    fn_in,              \* argument of the function applied; in Spec the images of the
                        \* last response given to get_page
    fn_out,             \* its result
    generated,          \* svt_text.generated: names and files, as written by codegen.py
    extratiles_dir,     \* Fetcher.extratiles_dir: [is_none, files]
    load_i,             \* number of reference entries handled by _read_tile_db
    db,                 \* [known_tiles, tile_data, heap, error]: Fetcher.known_tiles, Fetcher.tile_data
                        \* (key -> reference into heap) and the ParsedTile objects they refer to
    num_unknown_tiles,  \* Fetcher.num_unknown_tiles: page number -> count
    stderr,             \* messages printed by err_print
    saved,              \* files written by Tile.save: <<page, subpage, row, column>>
    calls,              \* number of get_page calls started
    call,               \* the running get_page call: page_num, next_page, subpages, subpage_num, row_num
    parsed_tiless,      \* rows scanned so far in _scan_subpage
    parsed_tilesss,     \* subpages decoded so far in get_page
    result              \* outcome of the last get_page call: [error, value]

fetcher_vars == <<generated, extratiles_dir, load_i, db, num_unknown_tiles, stderr, saved,
                  calls, call, parsed_tiless, parsed_tilesss, result>>

vars == <<pc, fn_in, fn_out, fetcher_vars>>

None == "None"

(***************************************************************************)
(* Bounds of the checked input spaces.                                     *)
(***************************************************************************)
\* palette indices used by the generated page images are 0..MaxIndex
MaxIndex == 3
\* number of get_page calls made on one Fetcher
MaxCalls == 2
\* reference entries of a load, shipped and extra together
MaxEntries == 3
\* rows and columns of the grids given to merge_rows
MaxRows == 4
MaxCols == 3

(***************************************************************************)
(* Program constants.                                                      *)
(***************************************************************************)
tile_width == 13
tile_height == 16
num_cols == 40
num_rows == 25
DH_FALSE == 0
DH_TRUE == 1
DH_TOP == 2
DH_BOTTOM == 3

\* TWOP = np.array([1,2,4,8,16,32,64,128], dtype=np.uint8), indexed from 0
TWOP == [m \in 0..7 |-> 2^m]

\* COLOR_TABLE: RGB triple -> colour symbol
COLOR_TABLE ==
    ( <<0, 0, 0>> :> "K" ) @@ ( <<255, 0, 0>> :> "R" ) @@
    ( <<0, 255, 0>> :> "G" ) @@ ( <<0, 0, 255>> :> "B" ) @@
    ( <<255, 255, 0>> :> "Y" ) @@ ( <<255, 0, 255>> :> "M" ) @@
    ( <<0, 255, 255>> :> "C" ) @@ ( <<255, 255, 255>> :> "W" )

\* dict.get(key, default)
DictGet(d, k, default) == IF k \in DOMAIN d THEN d[k] ELSE default

(***************************************************************************)
(* Pixel patterns used to build input images and reference tiles.          *)
(* A glyph is a predicate on the 208 tile positions k = y*13 + x telling   *)
(* which positions carry ink.                                              *)
(***************************************************************************)
TilePixels == tile_width * tile_height

Ink(g, k) ==
    LET x == k % tile_width
        y == k \div tile_width
    IN CASE g = "blank" -> FALSE
         [] g = "box"   -> x \in 3..9 /\ y \in 2..12
         [] g = "left"  -> x < 6                      \* ink on the top-left pixel
         [] g = "Atop"  -> (y \in 4..15 /\ x \in {3, 9}) \/ (y = 4 /\ x \in 3..9)
         [] g = "Abot"  -> (y \in 0..11 /\ x \in {3, 9}) \/ (y = 2 /\ x \in 3..9)
         [] g = "dots"  -> k % 7 = 3
         [] g = "last"  -> k = TilePixels - 1
         [] g = "second" -> k = 1
         [] g = "full"  -> k > 0
         [] g = "solid" -> TRUE
         [] OTHER       -> FALSE

Glyphs == {"blank", "box", "left", "Atop", "Abot", "dots", "last", "second", "full", "solid"}

(***************************************************************************)
(* Images.  An image is [size, palette, data]; getdata(im) is the sequence *)
(* of palette indices in row-major order, as PIL's Image.getdata().        *)
(* data names a layout: the glyph and the two palette indices of each      *)
(* cell, or a pattern that ignores the cell grid.                          *)
(***************************************************************************)
Cell(layout, r, c) ==
    CASE layout = "mixed" ->
            [g |-> CASE (r + c) % 9 = 0 -> "box"
                     [] (r + c) % 9 = 1 -> "left"
                     [] (r + c) % 9 = 2 -> "dots"
                     [] (r + c) % 9 = 3 -> "last"
                     [] (r + c) % 9 = 4 -> "second"
                     [] (r + c) % 9 = 5 -> "full"
                     [] (r + c) % 9 = 6 -> "Atop"
                     [] (r + c) % 9 = 7 -> "Abot"
                     [] OTHER -> "blank",
             paper |-> r % (MaxIndex + 1),
             ink |-> c % (MaxIndex + 1),
             ink2 |-> c % (MaxIndex + 1)]
      [] layout = "swapped" ->          \* "mixed" with paper and ink exchanged
            [g |-> CASE (r + c) % 9 = 0 -> "box"
                     [] (r + c) % 9 = 1 -> "left"
                     [] (r + c) % 9 = 2 -> "dots"
                     [] (r + c) % 9 = 3 -> "last"
                     [] (r + c) % 9 = 4 -> "second"
                     [] (r + c) % 9 = 5 -> "full"
                     [] (r + c) % 9 = 6 -> "Atop"
                     [] (r + c) % 9 = 7 -> "Abot"
                     [] OTHER -> "blank",
             paper |-> c % (MaxIndex + 1),
             ink |-> r % (MaxIndex + 1),
             ink2 |-> r % (MaxIndex + 1)]
      [] layout = "threecolour" ->      \* ink alternates between two indices
            [g |-> IF c % 2 = 0 THEN "dots" ELSE "box",
             paper |-> r % (MaxIndex + 1),
             ink |-> (r + 1) % (MaxIndex + 1),
             ink2 |-> (r + 2) % (MaxIndex + 1)]
      [] layout = "pageA" ->            \* a double-height pair, a character, a shape,
                                        \* the same unregistered pattern twice, and "dots"
            [g |-> CASE <<r, c>> = <<2, 3>> -> "Atop"
                     [] <<r, c>> = <<3, 3>> -> "Abot"
                     [] <<r, c>> = <<5, 0>> -> "box"
                     [] <<r, c>> \in {<<7, 1>>, <<7, 2>>} -> "second"
                     [] <<r, c>> = <<7, 5>> -> "dots"
                     [] <<r, c>> = <<9, 4>> -> "left"
                     [] OTHER -> "blank",
             paper |-> IF r = 11 THEN 2 ELSE 0, ink |-> 1, ink2 |-> 1]
      [] layout = "pageB" ->            \* a bottom half in the first row
            [g |-> CASE <<r, c>> = <<0, 0>> -> "Abot"
                     [] <<r, c>> = <<0, 1>> -> "second"
                     [] OTHER -> "blank",
             paper |-> 0, ink |-> 2, ink2 |-> 2]
      [] OTHER ->                       \* a glyph's name: that glyph in every cell
            [g |-> IF layout \in Glyphs THEN layout ELSE "blank",
             paper |-> 0, ink |-> 1, ink2 |-> 1]

\* palette index of the pixel at column x, row y of a width-w image
PixelAt(layout, w, x, y) ==
    IF layout = "stripes"
    THEN IF (y * w + x) % 11 < 4 THEN 1 ELSE ((y * w + x) \div 11) % 2 * 2
    ELSE LET cell == Cell(layout, y \div tile_height, x \div tile_width)
             k == (y % tile_height) * tile_width + (x % tile_width)
         IN IF Ink(cell.g, k)
            THEN (IF k % 2 = 0 THEN cell.ink ELSE cell.ink2)
            ELSE cell.paper

\* im.getdata()[n]: pixels in row-major order, indexed from 0
getdata(im, n) == PixelAt(im.data, im.size[1], n % im.size[1], n \div im.size[1])

\* row n of im.getpalette() reshaped to 256 rows of RGB; rows past the stored ones are black
getpalette(im, n) == IF n < Len(im.palette) THEN im.palette[n + 1] ELSE <<0, 0, 0>>

PaletteA == << <<0, 0, 0>>, <<255, 255, 255>>, <<255, 255, 0>>, <<0, 0, 255>> >>
\* two indices with the same colour, and a colour absent from COLOR_TABLE
PaletteB == << <<255, 0, 0>>, <<255, 0, 0>>, <<12, 34, 56>>, <<0, 255, 255>> >>

(***************************************************************************)
(* fetch.py: Tile, index, get_tiles                                        *)
(***************************************************************************)
\* class Tile
Tile(data, key, colors) == [data |-> data, key |-> key, colors |-> colors]

\* bytes(a): an immutable byte string built from the 26 uint8 of a
bytes(a) == [type |-> "bytes", val |-> [b \in 1..26 |-> a[b - 1]]]

\* tuple(a): a tuple of the 26 numbers of a; a tuple never equals a bytes object
tuple(a) == [type |-> "tuple", val |-> [b \in 1..26 |-> a[b - 1]]]

argmin_as(v, n) ==
    LET F == {k \in 0..(n - 1) : ~v[k]}
    IN IF F = {} THEN 0 ELSE CHOOSE k \in F : \A m \in F : k >= m

\* np.argmin over a boolean vector of length n: index of the first FALSE, 0 if none
argmin(v, n) ==
    LET F == {k \in 0..(n - 1) : ~v[k]}
    IN IF F = {} THEN 0 ELSE CHOOSE k \in F : \A m \in F : k <= m

\* np.dot / einsum of 8 booleans with TWOP, in uint8
RECURSIVE dot8(_, _, _)
dot8(v, b, m) ==
    IF m = 8 THEN 0
    ELSE ((IF v[b * 8 + m] THEN TWOP[m] ELSE 0) + dot8(v, b, m + 1)) % 256

\* the comparison of tiles == tiles[:, :, 0:1, 0:1]
equal_to_as(pixel, top_left) == pixel = 0

equal_to(pixel, top_left) == pixel = top_left

\* index(values, keys) for one row a of values: values[a][keys[a]]
index(values_a, keys_a) == values_a[keys_a]

size_ok(size) == size = <<tile_width * num_cols, tile_height * num_rows>>

reshape_swapaxes_as(im, i, j, y, x) ==
    getdata(im, ((i * num_cols + j) * tile_height + y) * tile_width + x)

\* imdata.reshape((num_rows, tile_height, num_cols, tile_width)).swapaxes(1, 2)[i][j][y][x]
reshape_swapaxes(im, i, j, y, x) ==
    getdata(im, ((i * tile_height + y) * num_cols + j) * tile_width + x)

\* make_tile(i, j) of get_tiles(im); the arrays of the code are given per tile (i, j)
make_tile(im, i, j) ==
    LET char_palette(n) == DictGet(COLOR_TABLE, getpalette(im, n), "K")
        tiles(y, x) == reshape_swapaxes(im, i, j, y, x)
        binary_tiles(y, x) == equal_to(tiles(y, x), tiles(0, 0))
        color_0_inds == tiles(0, 0)
        color_0 == char_palette(color_0_inds)
        linear_binary_tiles == [k \in 0..(TilePixels - 1) |->
                     binary_tiles(k \div tile_width, k % tile_width)]
        first_different == argmin(linear_binary_tiles, TilePixels)
        linear_tiles == [k \in 0..(TilePixels - 1) |-> tiles(k \div tile_width, k % tile_width)]
        color_1_inds == index(linear_tiles, first_different)
        color_1 == char_palette(color_1_inds)
        keys == [b \in 0..25 |-> dot8(linear_binary_tiles, b, 0)]
    IN Tile(linear_binary_tiles, bytes(keys), <<color_0, color_1>>)

get_tiles(im) ==
    IF ~size_ok(im.size)
    THEN [err |-> "AssertionError", val |-> <<>>]
    ELSE [err |-> None,
          val |-> [i \in 0..(num_rows - 1) |-> [j \in 0..(num_cols - 1) |->
                      make_tile(im, i, j)]]]

(***************************************************************************)
(* common.py: ParsedTile                                                   *)
(***************************************************************************)
ParsedTile(char, shape_id, fg_color, bg_color, dh_type) ==
    [char |-> char, shape_id |-> shape_id, fg_color |-> fg_color,
     bg_color |-> bg_color, dh_type |-> dh_type]

\* the colours passed in the wrong order
copy_as(pt) == ParsedTile(pt.char, pt.shape_id, pt.bg_color, pt.fg_color, pt.dh_type)

copy(pt) == ParsedTile(pt.char, pt.shape_id, pt.fg_color, pt.bg_color, pt.dh_type)

\* a shape_id of 0 taken for a shape
is_shape_not_space_as(pt) == pt.shape_id >= 0

is_shape_not_space(pt) == pt.shape_id > 0

\* largest shape_id: the six cells of a 2x3 mosaic, as in 63 - self.shape_id
MaxShapeId == 63

\* the default newbg read after fg_color has been overwritten
invert_shape_as(pt, newbg) ==
    LET bg == IF newbg = None THEN pt.bg_color ELSE newbg
        n == MaxShapeId - pt.shape_id
    IN [pt EXCEPT !.fg_color = pt.bg_color, !.bg_color = bg, !.shape_id = n,
                  !.char = IF n = 0 THEN " " ELSE None]

\* ParsedTile.invert_shape(newbg), newbg = None for the default argument
invert_shape(pt, newbg) ==
    LET bg == IF newbg = None THEN pt.fg_color ELSE newbg
        n == MaxShapeId - pt.shape_id
    IN [pt EXCEPT !.fg_color = pt.bg_color, !.bg_color = bg, !.shape_id = n,
                  !.char = IF n = 0 THEN " " ELSE None]

is_shape_or_space(pt) == pt.char = " " \/ pt.shape_id > 0

\* common.VERBOSE as set at import
VERBOSE == FALSE

err_print(log, msg) == Append(log, msg)

err_verbose(log, msg) == IF VERBOSE THEN Append(log, msg) ELSE log

(***************************************************************************)
(* Reference tiles: 13x16 one-bit images named by their tag.  A file name  *)
(* is the sequence of its characters.                                      *)
(***************************************************************************)
RefIm(g, paper, ink) == [size |-> <<tile_width, tile_height>>, data |-> g, paper |-> paper, ink |-> ink]

\* tile_im.getdata()[k] of a reference image
refdata(tile_im, k) == IF Ink(tile_im.data, k) THEN tile_im.ink ELSE tile_im.paper

RefSpace   == [fn |-> <<"c","h","a","r"," ",".","p","b","m">>, im |-> RefIm("blank", 255, 0)]
RefShape63 == [fn |-> <<"s","h","a","p","e","6","3",".","p","b","m">>, im |-> RefIm("solid", 255, 0)]
RefCharO   == [fn |-> <<"c","h","a","r","O",".","p","b","m">>, im |-> RefIm("box", 255, 0)]
RefToppA   == [fn |-> <<"t","o","p","p","A",".","p","b","m">>, im |-> RefIm("Atop", 255, 0)]
RefBottA   == [fn |-> <<"b","o","t","t","A",".","p","b","m">>, im |-> RefIm("Abot", 255, 0)]
RefShape21 == [fn |-> <<"s","h","a","p","e","2","1",".","p","b","m">>, im |-> RefIm("left", 255, 0)]
RefCharE   == [fn |-> <<"c","h","a","r","E",".","p","b","m">>, im |-> RefIm("dots", 255, 0)]
RefSlash   == [fn |-> <<"s","l","a","s","h",".","p","b","m">>, im |-> RefIm("last", 255, 0)]
\* the name Tile.save gives to an unknown tile, not yet labelled
RefUnlabelled == [fn |-> <<"1","0","0","-","0","-","5","-","0",".","p","b","m">>, im |-> RefIm("box", 0, 255)]
RefShort   == [fn |-> <<"O",".","p","b">>, im |-> RefIm("box", 255, 0)]
RefBottO   == [fn |-> <<"b","o","t","t","O",".","p","b","m">>, im |-> RefIm("box", 0, 255)]
RefShapeXY == [fn |-> <<"s","h","a","p","e","X","Y",".","p","b","m">>, im |-> RefIm("second", 255, 0)]

(***************************************************************************)
(* codegen.py: the generated module                                        *)
(***************************************************************************)
\* base64.b64encode: 3 bytes -> 4 sextets, 64 is the padding character
b64encode(bs) ==
    LET L == Len(bs)
        byte(q) == IF q <= L THEN bs[q] ELSE 0
        group(g) == byte(3 * g + 1) * 65536 + byte(3 * g + 2) * 256 + byte(3 * g + 3)
    IN [q \in 1..(4 * ((L + 2) \div 3)) |->
          LET g == (q - 1) \div 4
              r == (q - 1) % 4
          IN IF r >= 2 /\ 3 * g + r > L THEN 64
             ELSE (group(g) \div (64 ^ (3 - r))) % 64]

\* base64.b64decode
b64decode(cs) ==
    LET pads == Cardinality({q \in 1..Len(cs) : cs[q] = 64})
        sextet(q) == IF cs[q] = 64 THEN 0 ELSE cs[q]
        group(g) == sextet(4 * g + 1) * 262144 + sextet(4 * g + 2) * 4096
                    + sextet(4 * g + 3) * 64 + sextet(4 * g + 4)
    IN [q \in 1..(3 * (Len(cs) \div 4) - pads) |->
          (group((q - 1) \div 3) \div (256 ^ (2 - ((q - 1) % 3)))) % 256]

\* onebit = data == color_index_0; np.dot(onebit.reshape(-1, 8), TWOP)
onebit_dot(tile_im) ==
    LET color_index_0 == refdata(tile_im, 0)
        onebit == [k \in 0..(TilePixels - 1) |-> refdata(tile_im, k) = color_index_0]
    IN [b \in 0..25 |-> dot8(onebit, b, 0)]

RECURSIVE join(_)
join(bss) == IF bss = <<>> THEN <<>> ELSE Head(bss).val \o join(Tail(bss))

\* codegen.py over the files of svt_text/tiles, in os.listdir order
codegen(tiles_dir) ==
    LET image_bytes == [n \in 1..Len(tiles_dir) |-> bytes(onebit_dot(tiles_dir[n].im))]
    IN [names |-> [n \in 1..Len(tiles_dir) |-> tiles_dir[n].fn],
        files |-> b64encode(join(image_bytes))]

(***************************************************************************)
(* fetch.py: Tile.from_tile_im, Fetcher._read_tile_db                      *)
(***************************************************************************)
from_tile_im(tile_im) == Tile(None, tuple(onebit_dot(tile_im)), None)

EmptyDict == [k \in {} |-> 0]

DictSet(d, k, v) == [x \in DOMAIN d \cup {k} |-> IF x = k THEN v ELSE d[x]]

\* reference to no object
NoObject == 0

\* s[a:b] of Python, for 0 <= a and any b
slice(s, a, b) ==
    LET e == IF b < 0 THEN Len(s) + b ELSE IF b > Len(s) THEN Len(s) ELSE b
    IN SubSeq(s, a + 1, e)

Digits == ("0" :> 0) @@ ("1" :> 1) @@ ("2" :> 2) @@ ("3" :> 3) @@ ("4" :> 4) @@
          ("5" :> 5) @@ ("6" :> 6) @@ ("7" :> 7) @@ ("8" :> 8) @@ ("9" :> 9)

RECURSIVE digits_value(_)
digits_value(s) == IF s = <<>> THEN 0 ELSE digits_value(SubSeq(s, 1, Len(s) - 1)) * 10 + Digits[s[Len(s)]]

\* int(s) of a string of decimal digits; ValueError otherwise
int(s) ==
    IF s = <<>> \/ \E q \in 1..Len(s) : s[q] \notin DOMAIN Digits
    THEN [err |-> "ValueError", val |-> 0]
    ELSE [err |-> None, val |-> digits_value(s)]

\* tile_data[key] = ParsedTile(...): a new object, referred to from tile_data
store(d, key, pt) ==
    [d EXCEPT !.heap = Append(@, pt), !.tile_data = DictSet(@, key, Len(d.heap) + 1)]

\* handle_one without the check for a key seen before
handle_one_as(d, fn, tile) ==
    IF Len(fn) < 5 THEN d
    ELSE
      LET d0 == [d EXCEPT !.known_tiles = @ \cup {tile.key}]
          d1 == IF slice(fn, 0, 5) = <<"s","l","a","s","h">>
                THEN store(d0, tile.key, ParsedTile("/", 0, None, None, DH_FALSE)) ELSE d0
          d2 == IF slice(fn, 0, 5) = <<"s","l","a","s","T">>
                THEN store(d1, tile.key, ParsedTile("/", 0, None, None, DH_TOP)) ELSE d1
          d3 == IF slice(fn, 0, 5) = <<"s","l","a","s","B">>
                THEN store(d2, tile.key, ParsedTile("/", 0, None, None, DH_BOTTOM)) ELSE d2
          d4 == IF slice(fn, 0, 4) = <<"c","h","a","r">>
                THEN store(d3, tile.key, ParsedTile(fn[5], 0, None, None, DH_FALSE)) ELSE d3
          d5 == IF slice(fn, 0, 4) = <<"t","o","p","p">>
                THEN store(d4, tile.key, ParsedTile(fn[5], 0, None, None, DH_TOP)) ELSE d4
          d6 == IF slice(fn, 0, 4) = <<"b","o","t","t">>
                THEN store(d5, tile.key, ParsedTile(fn[5], 0, None, None, DH_BOTTOM)) ELSE d5
          n  == int(slice(fn, 5, -4))
          d7 == IF slice(fn, 0, 5) = <<"s","h","a","p","e">>
                THEN IF n.err # None THEN [d6 EXCEPT !.error = n.err]
                     ELSE store(d6, tile.key, ParsedTile(None, n.val, None, None, DH_FALSE))
                ELSE d6
      IN d7

handle_one(d, fn, tile) ==
    IF Len(fn) < 5 THEN d
    ELSE IF tile.key \in d.known_tiles THEN d      \* err_verbose('%s is dupe')
    ELSE
      LET d0 == [d EXCEPT !.known_tiles = @ \cup {tile.key}]
          d1 == IF slice(fn, 0, 5) = <<"s","l","a","s","h">>
                THEN store(d0, tile.key, ParsedTile("/", 0, None, None, DH_FALSE)) ELSE d0
          d2 == IF slice(fn, 0, 5) = <<"s","l","a","s","T">>
                THEN store(d1, tile.key, ParsedTile("/", 0, None, None, DH_TOP)) ELSE d1
          d3 == IF slice(fn, 0, 5) = <<"s","l","a","s","B">>
                THEN store(d2, tile.key, ParsedTile("/", 0, None, None, DH_BOTTOM)) ELSE d2
          d4 == IF slice(fn, 0, 4) = <<"c","h","a","r">>
                THEN store(d3, tile.key, ParsedTile(fn[5], 0, None, None, DH_FALSE)) ELSE d3
          d5 == IF slice(fn, 0, 4) = <<"t","o","p","p">>
                THEN store(d4, tile.key, ParsedTile(fn[5], 0, None, None, DH_TOP)) ELSE d4
          d6 == IF slice(fn, 0, 4) = <<"b","o","t","t">>
                THEN store(d5, tile.key, ParsedTile(fn[5], 0, None, None, DH_BOTTOM)) ELSE d5
          n  == int(slice(fn, 5, -4))
          d7 == IF slice(fn, 0, 5) = <<"s","h","a","p","e">>
                THEN IF n.err # None THEN [d6 EXCEPT !.error = n.err]
                     ELSE store(d6, tile.key, ParsedTile(None, n.val, None, None, DH_FALSE))
                ELSE d6
      IN d7

\* one iteration of the loop over svt_text.generated.names
ReadShipped ==
    /\ pc = "_read_tile_db"
    /\ load_i < Len(generated.names)
    /\ LET files == b64decode(generated.files)
           fn == generated.names[load_i + 1]
           key == [type |-> "bytes", val |-> slice(files, load_i * 26, load_i * 26 + 26)]
           d == handle_one(db, fn, Tile(None, key, None))
       IN /\ db' = d
          /\ pc' = IF d.error # None THEN "failed" ELSE pc
    /\ load_i' = load_i + 1
    /\ UNCHANGED <<fn_in, fn_out, generated, extratiles_dir, num_unknown_tiles, stderr, saved,
                   calls, call, parsed_tiless, parsed_tilesss, result>>

\* one iteration of the loop over os.listdir(self.extratiles_dir)
ReadExtra ==
    /\ pc = "_read_tile_db"
    /\ load_i >= Len(generated.names)
    /\ ~extratiles_dir.is_none
    /\ load_i - Len(generated.names) < Len(extratiles_dir.files)
    /\ LET e == extratiles_dir.files[load_i - Len(generated.names) + 1]
           d == handle_one(db, e.fn, from_tile_im(e.im))
       IN /\ db' = d
          /\ pc' = IF d.error # None THEN "failed" ELSE pc
    /\ load_i' = load_i + 1
    /\ UNCHANGED <<fn_in, fn_out, generated, extratiles_dir, num_unknown_tiles, stderr, saved,
                   calls, call, parsed_tiless, parsed_tilesss, result>>

\* _read_tile_db returns and __init__ completes
ReadDone ==
    /\ pc = "_read_tile_db"
    /\ load_i >= Len(generated.names)
    /\ extratiles_dir.is_none \/ load_i - Len(generated.names) >= Len(extratiles_dir.files)
    /\ stderr' = IF Cardinality(DOMAIN db.tile_data) = 0
                 THEN err_print(stderr, [msg |-> "No tiles loaded", page |-> 0, n |-> 0])
                 ELSE stderr
    /\ num_unknown_tiles' = EmptyDict
    /\ pc' = "ready"
    /\ UNCHANGED <<fn_in, fn_out, generated, extratiles_dir, load_i, db, saved,
                   calls, call, parsed_tiless, parsed_tilesss, result>>

PageSize == <<520, 400>>

(***************************************************************************)
(* fetch.py: merge_doubleheight, merge_rows                                *)
(* A function that can raise returns [err, val].                           *)
(***************************************************************************)
sub_map ==
    ("Fr" :> "F") @@ ("äa" :> "ä") @@ ("np" :> "p") @@ ("öo" :> "ö") @@ ("åa" :> "å") @@
    ("il" :> "i") @@ ("du" :> "d") @@ ("ug" :> "y") @@ ("hb" :> "b") @@ ("Hn" :> "H") @@
    ("uv" :> "v") @@ ("cs" :> "s") @@ ("Yf" :> "Y") @@ ("ÖO" :> "Ö") @@ ("Tf" :> "T") @@
    ("FL" :> "E") @@ ("Mn" :> "M") @@ ("8U" :> "8") @@ ("35" :> "3") @@ (" ." :> ".") @@
    (" -" :> "-") @@ ("6U" :> "6") @@ ("ÄÅ" :> "Ä") @@ ("OQ" :> "Q") @@ ("ée" :> "é") @@
    (" ," :> ",") @@ ("\" " :> "\"")

Ok(v) == [err |-> None, val |-> v]

AssertionError == [err |-> "AssertionError", val |-> None]

\* merge_doubleheight without the assertion on the foreground colours
merge_doubleheight_as(top, bottom) ==
    LET merged == [copy(bottom) EXCEPT !.dh_type = DH_TRUE]
        pair == top.char \o bottom.char
    IN
    IF top.bg_color # bottom.bg_color THEN AssertionError
    ELSE IF top.char = " " /\ bottom.char = " " THEN Ok(merged)
    ELSE IF is_shape_not_space(top) # is_shape_not_space(bottom) THEN AssertionError
    ELSE IF is_shape_not_space(bottom)
         THEN IF top.shape_id # bottom.shape_id THEN AssertionError ELSE Ok(merged)
    ELSE IF top.char # " " /\ top.dh_type # DH_TOP THEN AssertionError
    ELSE IF bottom.char # " " /\ bottom.dh_type # DH_BOTTOM THEN AssertionError
    ELSE IF top.char = bottom.char THEN Ok(merged)
    ELSE IF pair \in DOMAIN sub_map
         THEN IF bottom.char = " "
              THEN Ok([copy(top) EXCEPT !.dh_type = DH_TRUE, !.char = sub_map[pair]])
              ELSE Ok([merged EXCEPT !.char = sub_map[pair]])
    ELSE Ok([merged EXCEPT !.char = "(" \o top.char \o "," \o bottom.char \o ")"])

\* merged.dh_type = DH_TRUE left out after bottom.copy()
merge_doubleheight_nodh(top, bottom) ==
    LET merged == copy(bottom)
        pair == top.char \o bottom.char
    IN
    IF top.bg_color # bottom.bg_color THEN AssertionError
    ELSE IF top.char = " " /\ bottom.char = " " THEN Ok(merged)
    ELSE IF top.char # " " /\ bottom.char # " " /\ top.fg_color # bottom.fg_color
         THEN AssertionError
    ELSE IF is_shape_not_space(top) # is_shape_not_space(bottom) THEN AssertionError
    ELSE IF is_shape_not_space(bottom)
         THEN IF top.shape_id # bottom.shape_id THEN AssertionError ELSE Ok(merged)
    ELSE IF top.char # " " /\ top.dh_type # DH_TOP THEN AssertionError
    ELSE IF bottom.char # " " /\ bottom.dh_type # DH_BOTTOM THEN AssertionError
    ELSE IF top.char = bottom.char THEN Ok(merged)
    ELSE IF pair \in DOMAIN sub_map
         THEN IF bottom.char = " "
              THEN Ok([copy(top) EXCEPT !.dh_type = DH_TRUE, !.char = sub_map[pair]])
              ELSE Ok([merged EXCEPT !.char = sub_map[pair]])
    ELSE Ok([merged EXCEPT !.char = "(" \o top.char \o "," \o bottom.char \o ")"])

merge_doubleheight(top, bottom) ==
    LET merged == [copy(bottom) EXCEPT !.dh_type = DH_TRUE]
        pair == top.char \o bottom.char
    IN
    IF top.bg_color # bottom.bg_color THEN AssertionError
    ELSE IF top.char = " " /\ bottom.char = " " THEN Ok(merged)
    ELSE IF top.char # " " /\ bottom.char # " " /\ top.fg_color # bottom.fg_color
         THEN AssertionError
    ELSE IF is_shape_not_space(top) # is_shape_not_space(bottom) THEN AssertionError
    ELSE IF is_shape_not_space(bottom)
         THEN IF top.shape_id # bottom.shape_id THEN AssertionError ELSE Ok(merged)
    ELSE IF top.char # " " /\ top.dh_type # DH_TOP THEN AssertionError
    ELSE IF bottom.char # " " /\ bottom.dh_type # DH_BOTTOM THEN AssertionError
    ELSE IF top.char = bottom.char THEN Ok(merged)
    ELSE IF pair \in DOMAIN sub_map
         THEN IF bottom.char = " "
              THEN Ok([copy(top) EXCEPT !.dh_type = DH_TRUE, !.char = sub_map[pair]])
              ELSE Ok([merged EXCEPT !.char = sub_map[pair]])
    ELSE Ok([merged EXCEPT !.char = "(" \o top.char \o "," \o bottom.char \o ")"])

\* top halves not counted
count_dh_as(parsed_tiles, t) ==
    IF t = DH_TOP THEN 0
    ELSE Cardinality({c \in 1..Len(parsed_tiles) : parsed_tiles[c].dh_type = t})

\* bottom halves not counted
count_dh_nobottom(parsed_tiles, t) ==
    IF t = DH_BOTTOM THEN 0
    ELSE Cardinality({c \in 1..Len(parsed_tiles) : parsed_tiles[c].dh_type = t})

\* sum(pt.dh_type == t for pt in parsed_tiles)
count_dh(parsed_tiles, t) ==
    Cardinality({c \in 1..Len(parsed_tiles) : parsed_tiles[c].dh_type = t})

Min(a, b) == IF a < b THEN a ELSE b

\* the loop of merge_rows from row i (counted from 0) on; tiless is the argument
\* parsed_tiless and tiless2 the list parsed_tiless2 of the rows appended so far
RECURSIVE merge_rows_from(_, _, _)
merge_rows_from(tiless, i, tiless2) ==
    IF i >= Len(tiless) THEN Ok(tiless2)
    ELSE
      LET parsed_tiles == tiless[i + 1]
          num_top == count_dh(parsed_tiles, DH_TOP)
          num_bottom == count_dh(parsed_tiles, DH_BOTTOM)
      IN
      IF num_top = 0 /\ num_bottom = 0
      THEN merge_rows_from(tiless, i + 1, Append(tiless2, parsed_tiles))
      ELSE IF ~(num_bottom = 0 \/ num_top = 0) THEN AssertionError
      ELSE IF num_bottom = 0 THEN merge_rows_from(tiless, i + 1, tiless2)
      ELSE IF ~(i > 0) THEN AssertionError
      ELSE
        LET last_pts == tiless[i]
            zipped == [c \in 1..Min(Len(last_pts), Len(parsed_tiles)) |->
                          merge_doubleheight(last_pts[c], parsed_tiles[c])]
        IN IF \E c \in DOMAIN zipped : zipped[c].err # None THEN AssertionError
           ELSE merge_rows_from(tiless, i + 1,
                                Append(tiless2, [c \in DOMAIN zipped |-> zipped[c].val]))

merge_rows(tiless) == merge_rows_from(tiless, 0, <<>>)

(***************************************************************************)
(* fetch.py: Fetcher.get_page                                              *)
(***************************************************************************)
Images ==
    [n \in {"pageA", "pageB", "bad"} |->
        [size |-> IF n = "bad" THEN <<400, 520>> ELSE PageSize, palette |-> PaletteA, data |-> n]]

\* get_tiles of every image a response can carry
raw_tiles == [n \in DOMAIN Images |-> get_tiles(Images[n])]

Pages == {100, 101}

\* what _download_html and the page's JSON can give
Responses ==
    { [status |-> 404, match |-> FALSE, nextPage |-> <<>>, subPages |-> <<>>],
      [status |-> 200, match |-> FALSE, nextPage |-> <<>>, subPages |-> <<>>],
      [status |-> 200, match |-> TRUE, nextPage |-> <<"1","0","1">>, subPages |-> <<"pageA">>],
      [status |-> 200, match |-> TRUE, nextPage |-> <<>>, subPages |-> <<"pageB">>],
      [status |-> 200, match |-> TRUE, nextPage |-> <<>>, subPages |-> <<"bad">>],
      [status |-> 200, match |-> TRUE, nextPage |-> <<"1","0","x">>, subPages |-> <<"pageA">>],
      [status |-> 200, match |-> TRUE, nextPage |-> <<"1","0","2">>, subPages |-> <<"pageA", "pageB">>] }

NoCall == [page_num |-> 0, next_page |-> 0, subpages |-> <<>>, subpage_num |-> 0, row_num |-> 0]

unexpected_dimensions_as(size) == size[1] * size[2] # 520 * 400

\* the comparison of im.size != (520, 400)
unexpected_dimensions(size) == size # <<520, 400>>

\* _download_html and _parse_html
parse(response) ==
    IF response.status # 200 THEN [err |-> "FetchException", val |-> None]
    ELSE IF ~response.match THEN [err |-> "FetchException", val |-> None]
    ELSE LET n == int(response.nextPage) IN
      IF response.nextPage # <<>> /\ n.err # None THEN [err |-> "FetchException", val |-> None]
      ELSE IF \E q \in 1..Len(response.subPages) :
                 unexpected_dimensions(Images[response.subPages[q]].size)
           THEN [err |-> "FetchException", val |-> None]
      ELSE Ok([next_page |-> IF response.nextPage # <<>> THEN n.val ELSE 1000,
               images |-> response.subPages])

\* get_page up to the first subpage; fn_in keeps the images of the response
GetPage ==
    /\ pc = "ready"
    /\ calls < MaxCalls
    /\ calls' = calls + 1
    /\ \E page_num \in Pages, response \in Responses :
          LET r == parse(response) IN
          /\ fn_in' = response.subPages
          /\ IF r.err # None
             THEN /\ result' = [error |-> r.err, value |-> None]
                  /\ UNCHANGED <<pc, call>>
             ELSE /\ call' = [page_num |-> page_num, next_page |-> r.val.next_page,
                              subpages |-> r.val.images, subpage_num |-> 0, row_num |-> 0]
                  /\ pc' = IF r.val.images = <<>> THEN "return" ELSE "scan"
                  /\ UNCHANGED result
    /\ parsed_tiless' = <<>>
    /\ parsed_tilesss' = <<>>
    /\ UNCHANGED <<fn_out, generated, extratiles_dir, load_i, db, num_unknown_tiles,
                   stderr, saved>>

\* the counter of the page set to 1 instead of increased by 1
_tile_db_lookup_as(st, key, page_num) ==
    LET tile_data == DictGet(st.d.tile_data, key, NoObject) IN
    IF tile_data = NoObject
    THEN [st |-> [st EXCEPT !.nu = DictSet(@, page_num, 1),
                            !.d.heap = Append(@, ParsedTile(" ", 0, "K", "K", DH_FALSE))],
          pt |-> Len(st.d.heap) + 1]
    ELSE [st |-> [st EXCEPT !.d.heap = Append(@, copy(st.d.heap[tile_data]))],
          pt |-> Len(st.d.heap) + 1]

\* the template itself returned instead of tile_data.copy()
_tile_db_lookup_nocopy(st, key, page_num) ==
    LET tile_data == DictGet(st.d.tile_data, key, NoObject) IN
    IF tile_data = NoObject
    THEN [st |-> [st EXCEPT !.nu = DictSet(@, page_num, DictGet(@, page_num, 0) + 1),
                            !.d.heap = Append(@, ParsedTile(" ", 0, "K", "K", DH_FALSE))],
          pt |-> Len(st.d.heap) + 1]
    ELSE [st |-> st, pt |-> tile_data]

\* _tile_db_lookup on the scan state st = [d, nu, saved, row]: the new state and the
\* object returned

_tile_db_lookup(st, key, page_num) ==
    LET tile_data == DictGet(st.d.tile_data, key, NoObject) IN
    IF tile_data = NoObject
    THEN [st |-> [st EXCEPT !.nu = DictSet(@, page_num, DictGet(@, page_num, 0) + 1),
                            !.d.heap = Append(@, ParsedTile(" ", 0, "K", "K", DH_FALSE))],
          pt |-> Len(st.d.heap) + 1]
    ELSE [st |-> [st EXCEPT !.d.heap = Append(@, copy(st.d.heap[tile_data]))],
          pt |-> Len(st.d.heap) + 1]

\* the body of the loop of _scan_row for one tile
scan_tile(st, tile, page_num, subpage_num, row_num, col_num) ==
    LET s1 == IF tile.key \notin st.d.known_tiles
              THEN [st EXCEPT !.saved = IF ~extratiles_dir.is_none
                                        THEN @ \cup {<<page_num, subpage_num, row_num, col_num>>}
                                        ELSE @,
                              !.d.known_tiles = @ \cup {tile.key}]
              ELSE st
        r == _tile_db_lookup(s1, tile.key, page_num)
    IN [r.st EXCEPT !.d.heap[r.pt].bg_color = tile.colors[1],
                    !.d.heap[r.pt].fg_color = tile.colors[2],
                    !.row = Append(@, r.pt)]

\* the loop of _scan_row from the column col_num = len(parsed_tiles) on
RECURSIVE scan_row_from(_, _, _, _, _)
scan_row_from(st, tile_row, page_num, subpage_num, row_num) ==
    LET col_num == Len(st.row) IN
    IF col_num >= num_cols THEN st
    ELSE scan_row_from(scan_tile(st, tile_row[col_num], page_num,
                                 subpage_num, row_num, col_num),
                       tile_row, page_num, subpage_num, row_num)

\* get_page fails with exception e
Abort(e) ==
    /\ result' = [error |-> e, value |-> None]
    /\ pc' = "ready"
    /\ call' = NoCall
    /\ parsed_tiless' = <<>>
    /\ parsed_tilesss' = <<>>

\* _scan_row on the next row of the current subpage (get_tiles before the first row)
ScanRow ==
    /\ pc = "scan"
    /\ LET raw == raw_tiles[call.subpages[call.subpage_num + 1]] IN
       IF raw.err # None
       THEN /\ Abort(raw.err)
            /\ UNCHANGED <<db, num_unknown_tiles, saved>>
       ELSE LET st0 == [d |-> db, nu |-> num_unknown_tiles, saved |-> saved, row |-> <<>>]
                st == scan_row_from(st0, raw.val[call.row_num], call.page_num, call.subpage_num,
                                    call.row_num)
            IN \* the objects made for this row are held by value from here on
               /\ parsed_tiless' = LET heap == st.d.heap
                                        parsed_tiles == st.row
                                    IN Append(parsed_tiless,
                                              [c \in 1..Len(parsed_tiles) |-> heap[parsed_tiles[c]]])
               /\ db' = [st.d EXCEPT !.heap = SubSeq(@, 1, Len(db.heap))]
               /\ num_unknown_tiles' = st.nu
               /\ saved' = st.saved
               /\ call' = [call EXCEPT !.row_num = @ + 1]
               /\ pc' = IF call.row_num + 1 = num_rows THEN "merge" ELSE "scan"
               /\ UNCHANGED <<parsed_tilesss, result>>
    /\ UNCHANGED <<fn_in, fn_out, generated, extratiles_dir, load_i, stderr, calls>>

\* the end of _scan_subpage: merge_rows, and the step to the next subpage
MergeRows ==
    /\ pc = "merge"
    /\ LET r == merge_rows(parsed_tiless) IN
       IF r.err # None
       THEN Abort(r.err)
       ELSE /\ parsed_tilesss' = Append(parsed_tilesss, r.val)
            /\ parsed_tiless' = <<>>
            /\ call' = [call EXCEPT !.subpage_num = @ + 1, !.row_num = 0]
            /\ pc' = IF call.subpage_num + 1 < Len(call.subpages) THEN "scan" ELSE "return"
            /\ UNCHANGED result
    /\ UNCHANGED <<fn_in, fn_out, generated, extratiles_dir, load_i, db, num_unknown_tiles,
                   stderr, saved, calls>>

\* the end of get_page: the diagnostic and the return
Return ==
    /\ pc = "return"
    /\ stderr' = IF call.page_num \in DOMAIN num_unknown_tiles
                 THEN err_print(stderr, [msg |-> "unknown tiles", page |-> call.page_num,
                                         n |-> num_unknown_tiles[call.page_num]])
                 ELSE stderr
    /\ result' = [error |-> None, value |-> <<call.next_page, parsed_tilesss>>]
    /\ pc' = "ready"
    /\ call' = NoCall
    /\ parsed_tiless' = <<>>
    /\ parsed_tilesss' = <<>>
    /\ UNCHANGED <<fn_in, fn_out, generated, extratiles_dir, load_i, db, num_unknown_tiles,
                   saved, calls>>

(***************************************************************************)
(* Spec: one Fetcher, from the start of _read_tile_db on.                  *)
(***************************************************************************)
ShippedTiles == <<RefSpace, RefShape63, RefCharO, RefToppA, RefBottA, RefShape21>>

ExtraDirs ==
    { [is_none |-> TRUE, files |-> <<>>],
      [is_none |-> FALSE, files |-> <<RefCharE>>],
      [is_none |-> FALSE, files |-> <<RefUnlabelled, RefSlash>>] }

FetcherStart ==
    /\ load_i = 0
    /\ db = [known_tiles |-> {}, tile_data |-> EmptyDict, heap |-> <<>>, error |-> None]
    /\ num_unknown_tiles = EmptyDict
    /\ stderr = <<>>
    /\ saved = {}
    /\ calls = 0
    /\ call = NoCall
    /\ parsed_tiless = <<>>
    /\ parsed_tilesss = <<>>
    /\ result = [error |-> None, value |-> None]

Init ==
    /\ pc = "_read_tile_db"
    /\ fn_in = <<>>
    /\ fn_out = None
    /\ generated = codegen(ShippedTiles)
    /\ extratiles_dir \in ExtraDirs
    /\ FetcherStart

Next ==
    \/ ReadShipped
    \/ ReadExtra
    \/ ReadDone
    \/ GetPage
    \/ ScanRow
    \/ MergeRows
    \/ Return

Spec == Init /\ [][Next]_vars

(***************************************************************************)
(* SpecTiles: get_tiles on bounded images.                                 *)
(***************************************************************************)
TileRows == {0, 1, 24}
TileCols == (0..8) \cup {39}

TileImages ==
    { [size |-> PageSize, palette |-> p, data |-> d] :
        p \in {PaletteA, PaletteB}, d \in {"mixed", "swapped", "threecolour", "stripes"} }

InitTiles ==
    /\ pc = "call"
    /\ fn_in \in { [im |-> im, im2 |-> im2, i |-> i, j |-> j] :
                    im \in TileImages, im2 \in TileImages, i \in TileRows, j \in TileCols }
    /\ fn_out = None
    /\ generated = [names |-> <<>>, files |-> <<>>]
    /\ extratiles_dir = [is_none |-> TRUE, files |-> <<>>]
    /\ FetcherStart

\* make_tile(i, j) of get_tiles(im) and of get_tiles(im2)
ExtractTile ==
    /\ pc = "call"
    /\ pc' = "done"
    /\ size_ok(fn_in.im.size) /\ size_ok(fn_in.im2.size)
    /\ LET t == make_tile(fn_in.im, fn_in.i, fn_in.j)
           t2 == make_tile(fn_in.im2, fn_in.i, fn_in.j)
       IN fn_out' = << [key |-> t.key, colors |-> t.colors],
                       [key |-> t2.key, colors |-> t2.colors] >>
    /\ UNCHANGED <<fn_in, fetcher_vars>>

NextTiles == ExtractTile

SpecTiles == InitTiles /\ [][NextTiles]_vars

(***************************************************************************)
(* SpecLoad: _read_tile_db on bounded sequences of reference entries.      *)
(* fn_in keeps the entries of the shipped corpus given to codegen.         *)
(***************************************************************************)
LoadPool == {RefCharO, RefBottO, RefUnlabelled, RefShort, RefShapeXY, RefSpace, RefShape63}

SeqsUpTo(S, n) == UNION {[1..m -> S] : m \in 0..n}

InitLoad ==
    /\ pc = "_read_tile_db"
    /\ fn_in \in SeqsUpTo(LoadPool, MaxEntries)
    /\ fn_out = None
    /\ generated = codegen(fn_in)
    /\ extratiles_dir \in
          {[is_none |-> TRUE, files |-> <<>>]} \cup
          {[is_none |-> FALSE, files |-> extras] :
              extras \in SeqsUpTo(LoadPool, MaxEntries - Len(fn_in))}
    /\ FetcherStart

NextLoad ==
    \/ ReadShipped
    \/ ReadExtra
    \/ ReadDone

SpecLoad == InitLoad /\ [][NextLoad]_vars

(***************************************************************************)
(* SpecMerge: merge_rows on bounded grids of ParsedTile.                   *)
(***************************************************************************)
\* the rows a grid is built from, each MaxCols wide
MergeRow(kind) ==
    [c \in 1..MaxCols |->
        CASE kind = "plain"  -> ParsedTile("a", 0, "W", "K", DH_FALSE)
          [] kind = "blank"  -> ParsedTile(" ", 0, "K", "K", DH_FALSE)
          [] kind = "top"    -> IF c = 1 THEN ParsedTile("A", 0, "W", "K", DH_TOP)
                                ELSE ParsedTile(" ", 0, "K", "K", DH_FALSE)
          [] kind = "bottom" -> IF c = 1 THEN ParsedTile("A", 0, "W", "K", DH_BOTTOM)
                                ELSE ParsedTile(" ", 0, "K", "K", DH_FALSE)
          [] kind = "bottomB" -> IF c = 1 THEN ParsedTile("B", 0, "W", "B", DH_BOTTOM)
                                 ELSE ParsedTile(" ", 0, "K", "K", DH_FALSE)
          [] kind = "both"   -> IF c = 1 THEN ParsedTile("A", 0, "W", "K", DH_TOP)
                                ELSE IF c = MaxCols THEN ParsedTile("A", 0, "W", "K", DH_BOTTOM)
                                ELSE ParsedTile(" ", 0, "K", "K", DH_FALSE)]

MergeRowKinds == {"plain", "blank", "top", "bottom", "bottomB", "both"}

InitMerge ==
    /\ pc = "call"
    /\ fn_in \in { [r \in 1..Len(kinds) |-> MergeRow(kinds[r])] :
                     kinds \in SeqsUpTo(MergeRowKinds, MaxRows) }
    /\ fn_out = AssertionError
    /\ generated = [names |-> <<>>, files |-> <<>>]
    /\ extratiles_dir = [is_none |-> TRUE, files |-> <<>>]
    /\ FetcherStart

\* parsed_tiless = merge_rows(parsed_tiless) of _scan_subpage
MergeGrid ==
    /\ pc = "call"
    /\ pc' = "done"
    /\ fn_out' = merge_rows(fn_in)
    /\ UNCHANGED <<fn_in, fetcher_vars>>

NextMerge == MergeGrid

SpecMerge == InitMerge /\ [][NextMerge]_vars

(***************************************************************************)
(* SpecDH: merge_doubleheight on pairs of ParsedTile, and merge_rows on    *)
(* the grid of the two one-tile rows.                                      *)
(***************************************************************************)
\* characters: a blank, letters in and out of sub_map, and None for the char of a shape
DHChars == {" ", "a", "F", "r", ".", "\""}

DHTiles ==
    { ParsedTile(c, 0, fg, bg, dh) :
        c \in DHChars \cup {None}, fg \in {"W", "Y"}, bg \in {"K", "B"},
        dh \in {DH_FALSE, DH_TRUE, DH_TOP, DH_BOTTOM} }
    \cup
    { ParsedTile(None, n, fg, bg, dh) :
        n \in {21, 42}, fg \in {"W", "Y"}, bg \in {"K", "B"},
        dh \in {DH_FALSE, DH_TRUE, DH_TOP, DH_BOTTOM} }

InitDH ==
    /\ pc = "call"
    /\ fn_in \in [top : DHTiles, bottom : DHTiles]
    /\ fn_out = [merged |-> AssertionError, grid |-> AssertionError]
    /\ generated = [names |-> <<>>, files |-> <<>>]
    /\ extratiles_dir = [is_none |-> TRUE, files |-> <<>>]
    /\ FetcherStart

\* merge_doubleheight(top, bottom), and merge_rows of the rows [top], [bottom]
MergePair ==
    /\ pc = "call"
    /\ pc' = "done"
    /\ fn_out' = [merged |-> merge_doubleheight(fn_in.top, fn_in.bottom),
                  grid |-> merge_rows(<< <<fn_in.top>>, <<fn_in.bottom>> >>)]
    /\ UNCHANGED <<fn_in, fetcher_vars>>

NextDH == MergePair

SpecDH == InitDH /\ [][NextDH]_vars

(***************************************************************************)
(* render.py: getboxchar, getbraille.  A string is the sequence of the     *)
(* code points of its characters.                                          *)
(***************************************************************************)
\* x & y and x | y on naturals
RECURSIVE bitand(_, _)
bitand(x, y) ==
    IF x = 0 \/ y = 0 THEN 0
    ELSE (x % 2) * (y % 2) + 2 * bitand(x \div 2, y \div 2)

RECURSIVE bitor(_, _)
bitor(x, y) ==
    IF x = 0 THEN y
    ELSE IF y = 0 THEN x
    ELSE (IF x % 2 = 1 \/ y % 2 = 1 THEN 1 ELSE 0) + 2 * bitor(x \div 2, y \div 2)

\* x << n and x >> n
shl(x, n) == x * 2 ^ n

shr(x, n) == x \div 2 ^ n

\* chr(n): the string of the one character with code point n
chr(n) == <<n>>

\* the string ' ▌▐█': space, left half block, right half block, full block
BlockChars == <<32, 9612, 9616, 9608>>

getboxchar(x) ==
    LET d == (x + 20) \div 21
        mod == (x + 20) % 21
    IN IF mod = 20 THEN <<BlockChars[d + 1]>>
       ELSE chr(129792 + x - d)

\* (x & 4) shifted by 2 instead of 1
getbraille_as(x) ==
    LET y == bitor(bitor(bitor(bitor(bitand(x, 1 + 32), shl(bitand(x, 2), 2)),
                               shr(bitand(x, 4), 2)),
                         shl(bitand(x, 8), 1)),
                   shr(bitand(x, 16), 2))
    IN chr(10240 + y)

getbraille(x) ==
    LET y == bitor(bitor(bitor(bitor(bitand(x, 1 + 32), shl(bitand(x, 2), 2)),
                               shr(bitand(x, 4), 1)),
                         shl(bitand(x, 8), 1)),
                   shr(bitand(x, 16), 2))
    IN chr(10240 + y)

\* the char apply_shapes gives a tile of shape_id x
shape_char(braille, x) == IF braille THEN getbraille(x) ELSE getboxchar(x)

(***************************************************************************)
(* SpecGlyph: the glyphs of two shape ids in one display mode.             *)
(***************************************************************************)
InitGlyph ==
    /\ pc = "call"
    /\ fn_in \in [x : 0..MaxShapeId, y : 0..MaxShapeId, braille : BOOLEAN]
    /\ fn_out = <<>>
    /\ generated = [names |-> <<>>, files |-> <<>>]
    /\ extratiles_dir = [is_none |-> TRUE, files |-> <<>>]
    /\ FetcherStart

ShapeGlyphs ==
    /\ pc = "call"
    /\ pc' = "done"
    /\ fn_out' = <<shape_char(fn_in.braille, fn_in.x), shape_char(fn_in.braille, fn_in.y)>>
    /\ UNCHANGED <<fn_in, fetcher_vars>>

NextGlyph == ShapeGlyphs

SpecGlyph == InitGlyph /\ [][NextGlyph]_vars

(***************************************************************************)
(* SpecInvert: invert_shape applied twice to a blank or shape tile.        *)
(***************************************************************************)
InvertColours == {"K", "W", "Y"}

InitInvert ==
    /\ pc = "call"
    /\ fn_in \in { [pt |-> ParsedTile(IF n = 0 THEN " " ELSE None, n, fg, bg, DH_FALSE),
                    newbg |-> newbg] :
                     n \in 0..MaxShapeId, fg \in InvertColours, bg \in InvertColours,
                     newbg \in {None, "K", "B"} }
    /\ fn_out = fn_in.pt
    /\ generated = [names |-> <<>>, files |-> <<>>]
    /\ extratiles_dir = [is_none |-> TRUE, files |-> <<>>]
    /\ FetcherStart

\* parsed_tile.invert_shape(newbg), a first and a second time
InvertShape ==
    /\ pc \in {"call", "once"}
    /\ pc' = IF pc = "call" THEN "once" ELSE "twice"
    /\ fn_out' = invert_shape(fn_out, fn_in.newbg)
    /\ UNCHANGED <<fn_in, fetcher_vars>>

NextInvert == InvertShape

SpecInvert == InitInvert /\ [][NextInvert]_vars

(***************************************************************************)
(* render.py: fgbg_fixups, remove_fg_back_and_forth, render_page           *)
(***************************************************************************)
BRAILLE == FALSE

\* the test bg != 'K' of page 401 left out
fgbg_fixups_tile_401(parsed_tile, lastbg, page, subpageid) ==
    LET fg == parsed_tile.fg_color
        bg == parsed_tile.bg_color
        inverted(newbg) == [parsed_tile |-> invert_shape(parsed_tile, newbg), lastbg |-> lastbg]
        untouched == [parsed_tile |-> parsed_tile, lastbg |-> lastbg]
        carried == [parsed_tile |-> parsed_tile, lastbg |-> bg]
    IN IF ~is_shape_or_space(parsed_tile) THEN untouched
       ELSE IF parsed_tile.char = " "
       THEN IF bg = "Y" /\ lastbg = "B" THEN inverted(lastbg)
            ELSE IF 401 = page THEN inverted("K")
            ELSE IF 777 = page /\ subpageid = 2 /\ bg = "C" /\ fg = "K" THEN inverted("K")
            ELSE IF 777 = page /\ subpageid < 2 THEN carried
            ELSE IF page \notin {129, 149} /\ bg = "W" THEN inverted(lastbg)
            ELSE carried
       ELSE IF fg = "K" \/ bg = "W" THEN inverted(None)
            ELSE IF bg = "Y" /\ fg = "B" THEN inverted(None)
            ELSE untouched

\* the rule for a blue foreground on a yellow background left out
fgbg_fixups_tile_as(parsed_tile, lastbg, page, subpageid) ==
    LET fg == parsed_tile.fg_color
        bg == parsed_tile.bg_color
        inverted(newbg) == [parsed_tile |-> invert_shape(parsed_tile, newbg), lastbg |-> lastbg]
        untouched == [parsed_tile |-> parsed_tile, lastbg |-> lastbg]
        carried == [parsed_tile |-> parsed_tile, lastbg |-> bg]
    IN IF ~is_shape_or_space(parsed_tile) THEN untouched
       ELSE IF parsed_tile.char = " "
       THEN IF bg = "Y" /\ lastbg = "B" THEN inverted(lastbg)
            ELSE IF 401 = page /\ bg # "K" THEN inverted("K")
            ELSE IF 777 = page /\ subpageid = 2 /\ bg = "C" /\ fg = "K" THEN inverted("K")
            ELSE IF 777 = page /\ subpageid < 2 THEN carried
            ELSE IF page \notin {129, 149} /\ bg = "W" THEN inverted(lastbg)
            ELSE carried
       ELSE IF fg = "K" \/ bg = "W" THEN inverted(None)
            ELSE untouched

\* lastbg taken from every blank, the inverted ones included
fgbg_fixups_tile_lastbg(parsed_tile, lastbg, page, subpageid) ==
    LET fg == parsed_tile.fg_color
        bg == parsed_tile.bg_color
        inverted(newbg) == [parsed_tile |-> invert_shape(parsed_tile, newbg), lastbg |-> lastbg]
        blank(newbg) == [parsed_tile |-> invert_shape(parsed_tile, newbg), lastbg |-> bg]
        untouched == [parsed_tile |-> parsed_tile, lastbg |-> lastbg]
        carried == [parsed_tile |-> parsed_tile, lastbg |-> bg]
    IN IF ~is_shape_or_space(parsed_tile) THEN untouched
       ELSE IF parsed_tile.char = " "
       THEN IF bg = "Y" /\ lastbg = "B" THEN blank(lastbg)
            ELSE IF 401 = page /\ bg # "K" THEN blank("K")
            ELSE IF 777 = page /\ subpageid = 2 /\ bg = "C" /\ fg = "K" THEN blank("K")
            ELSE IF 777 = page /\ subpageid < 2 THEN carried
            ELSE IF page \notin {129, 149} /\ bg = "W" THEN blank(lastbg)
            ELSE carried
       ELSE IF fg = "K" \/ bg = "W" THEN inverted(None)
            ELSE IF bg = "Y" /\ fg = "B" THEN inverted(None)
            ELSE untouched

\* the body of the loops of fgbg_fixups for one tile: the tile and lastbg after it
fgbg_fixups_tile(parsed_tile, lastbg, page, subpageid) ==
    LET fg == parsed_tile.fg_color
        bg == parsed_tile.bg_color
        inverted(newbg) == [parsed_tile |-> invert_shape(parsed_tile, newbg), lastbg |-> lastbg]
        untouched == [parsed_tile |-> parsed_tile, lastbg |-> lastbg]
        carried == [parsed_tile |-> parsed_tile, lastbg |-> bg]
    IN IF ~is_shape_or_space(parsed_tile) THEN untouched
       ELSE IF parsed_tile.char = " "
       THEN IF bg = "Y" /\ lastbg = "B" THEN inverted(lastbg)
            ELSE IF 401 = page /\ bg # "K" THEN inverted("K")
            ELSE IF 777 = page /\ subpageid = 2 /\ bg = "C" /\ fg = "K" THEN inverted("K")
            ELSE IF 777 = page /\ subpageid < 2 THEN carried
            ELSE IF page \notin {129, 149} /\ bg = "W" THEN inverted(lastbg)
            ELSE carried
       ELSE IF fg = "K" \/ bg = "W" THEN inverted(None)
            ELSE IF bg = "Y" /\ fg = "B" THEN inverted(None)
            ELSE untouched

\* the positions <<row, column>> of a grid in the order of the two loops
RECURSIVE row_major_from(_, _)
row_major_from(tiless, r) ==
    IF r > Len(tiless) THEN <<>>
    ELSE [c \in 1..Len(tiless[r]) |-> <<r, c>>] \o row_major_from(tiless, r + 1)

row_major(tiless) == row_major_from(tiless, 1)

\* the loop of remove_fg_back_and_forth over one row, from index i (counted from 0) on
RECURSIVE remove_fg_row_from(_, _)
remove_fg_row_from(parsed_tiles, i) ==
    IF i >= Len(parsed_tiles) THEN parsed_tiles
    ELSE IF i < 2 THEN remove_fg_row_from(parsed_tiles, i + 1)
    ELSE IF parsed_tiles[i].char # " " THEN remove_fg_row_from(parsed_tiles, i + 1)
    ELSE IF parsed_tiles[i - 1].char = " " \/ parsed_tiles[i + 1].char = " "
         THEN remove_fg_row_from(parsed_tiles, i + 1)
    ELSE IF parsed_tiles[i - 1].fg_color # parsed_tiles[i + 1].fg_color
         THEN remove_fg_row_from(parsed_tiles, i + 1)
    ELSE remove_fg_row_from([parsed_tiles EXCEPT ![i].fg_color = parsed_tiles[i + 1].fg_color],
                            i + 1)

\* the test of parsed_tiles[i-2].char left out
remove_fg_back_and_forth_as(tiless) ==
    [r \in 1..Len(tiless) |->
        LET parsed_tiles == tiless[r] IN
        [c \in 1..Len(parsed_tiles) |->
            IF /\ c > 1 /\ c < Len(parsed_tiles)
               /\ parsed_tiles[c].char = " "
               /\ parsed_tiles[c + 1].char # " "
               /\ parsed_tiles[c - 1].fg_color = parsed_tiles[c + 1].fg_color
            THEN [parsed_tiles[c] EXCEPT !.fg_color = parsed_tiles[c + 1].fg_color]
            ELSE parsed_tiles[c]]]

remove_fg_back_and_forth(tiless) ==
    [r \in 1..Len(tiless) |-> remove_fg_row_from(tiless[r], 0)]

apply_shapes(tiless, braille) ==
    [r \in 1..Len(tiless) |->
        [c \in 1..Len(tiless[r]) |->
            LET parsed_tile == tiless[r][c] IN
            IF is_shape_not_space(parsed_tile)
            THEN [parsed_tile EXCEPT !.char = shape_char(braille, parsed_tile.shape_id)]
            ELSE parsed_tile]]

(***************************************************************************)
(* SpecRender: the three passes of render_page over one subpage.           *)
(***************************************************************************)
MaxTiles == 3

\* blanks, shapes and a character in the colours the rules of fgbg_fixups name
RenderTiles ==
    { ParsedTile(" ", 0, "W", "K", DH_FALSE),
      ParsedTile(" ", 0, "W", "B", DH_FALSE),
      ParsedTile(" ", 0, "W", "Y", DH_FALSE),
      ParsedTile(" ", 0, "K", "W", DH_FALSE),
      ParsedTile(" ", 0, "K", "C", DH_FALSE),
      ParsedTile(None, 21, "B", "Y", DH_FALSE),
      ParsedTile(None, 5, "K", "R", DH_FALSE),
      ParsedTile(None, 42, "W", "K", DH_FALSE),
      ParsedTile(None, 63, "R", "W", DH_FALSE),
      ParsedTile("a", 0, "K", "W", DH_TRUE) }

\* <<page, subpageid>>
RenderPages == {<<100, 0>>, <<401, 0>>, <<777, 0>>, <<777, 2>>, <<129, 0>>}

\* the grids of one or two rows that hold the tiles of s in order
Grids(s) == {<<s>>} \cup {<<SubSeq(s, 1, k), SubSeq(s, k + 1, Len(s))>> : k \in 1..(Len(s) - 1)}

InitRender ==
    /\ \E m \in 0..MaxTiles, p \in RenderPages :
          \E s \in [1..m -> RenderTiles] :
             \E g \in Grids(s) :
                fn_in = [parsed_tiless |-> g, page |-> p[1], subpageid |-> p[2]]
    /\ fn_out = [parsed_tiless |-> fn_in.parsed_tiless, lastbg |-> "K", k |-> 1]
    /\ pc = IF row_major(fn_in.parsed_tiless) = <<>> THEN "remove_fg_back_and_forth"
            ELSE "fgbg_fixups"
    /\ generated = [names |-> <<>>, files |-> <<>>]
    /\ extratiles_dir = [is_none |-> TRUE, files |-> <<>>]
    /\ FetcherStart

\* one iteration of the inner loop of fgbg_fixups, on the k-th tile in row-major order
FixTile ==
    /\ pc = "fgbg_fixups"
    /\ LET at == row_major(fn_out.parsed_tiless)
           r == at[fn_out.k][1]
           c == at[fn_out.k][2]
           fixed == fgbg_fixups_tile(fn_out.parsed_tiless[r][c], fn_out.lastbg,
                                     fn_in.page, fn_in.subpageid)
       IN /\ fn_out' = [parsed_tiless |-> [fn_out.parsed_tiless EXCEPT ![r][c] = fixed.parsed_tile],
                        lastbg |-> fixed.lastbg,
                        k |-> fn_out.k + 1]
          /\ pc' = IF fn_out.k = Len(at) THEN "remove_fg_back_and_forth" ELSE "fgbg_fixups"
    /\ UNCHANGED <<fn_in, fetcher_vars>>

RemoveFgBackAndForth ==
    /\ pc = "remove_fg_back_and_forth"
    /\ pc' = "apply_shapes"
    /\ fn_out' = [fn_out EXCEPT !.parsed_tiless = remove_fg_back_and_forth(@)]
    /\ UNCHANGED <<fn_in, fetcher_vars>>

ApplyShapes ==
    /\ pc = "apply_shapes"
    /\ pc' = "render_row"
    /\ fn_out' = [fn_out EXCEPT !.parsed_tiless = apply_shapes(@, BRAILLE)]
    /\ UNCHANGED <<fn_in, fetcher_vars>>

NextRender ==
    \/ FixTile
    \/ RemoveFgBackAndForth
    \/ ApplyShapes

SpecRender == InitRender /\ [][NextRender]_vars

(***************************************************************************)
(* SpecFixups: fgbg_fixups alone, on short grids in every pairing of the   *)
(* colours its rules name.                                                 *)
(***************************************************************************)
MaxFixTiles == 2

FixColours == {"K", "W", "Y", "B", "C"}

\* blanks, shapes in every pairing of the colours of the shape rules, a full
\* block, a character and a shape0 tile
FixTiles ==
    { ParsedTile(" ", 0, fg, bg, DH_FALSE) : fg \in {"K", "W"}, bg \in FixColours }
    \cup { ParsedTile(None, 21, fg, bg, DH_FALSE) : fg \in FixColours \ {"C"},
                                                     bg \in FixColours \ {"C"} }
    \cup { ParsedTile(None, MaxShapeId, "K", "W", DH_FALSE),
           ParsedTile("a", 0, "K", "W", DH_FALSE),
           ParsedTile(None, 0, "K", "W", DH_FALSE) }

\* <<page, subpageid>>
FixPages == RenderPages \cup {<<149, 0>>, <<777, 1>>, <<777, 3>>}

InitFixups ==
    /\ \E m \in 0..MaxFixTiles, p \in FixPages :
          \E s \in [1..m -> FixTiles] :
             fn_in = [parsed_tiless |-> <<s>>, page |-> p[1], subpageid |-> p[2]]
    /\ fn_out = [parsed_tiless |-> fn_in.parsed_tiless, lastbg |-> "K", k |-> 1]
    /\ pc = IF row_major(fn_in.parsed_tiless) = <<>> THEN "remove_fg_back_and_forth"
            ELSE "fgbg_fixups"
    /\ generated = [names |-> <<>>, files |-> <<>>]
    /\ extratiles_dir = [is_none |-> TRUE, files |-> <<>>]
    /\ FetcherStart

NextFixups == FixTile

SpecFixups == InitFixups /\ [][NextFixups]_vars

(***************************************************************************)
(* Properties of get_tiles (SpecTiles).                                    *)
(***************************************************************************)
\* palette index of pixel k (row-major within the tile) of the tile at row i, column j
TilePixel(im, i, j, k) ==
    PixelAt(im.data, im.size[1], j * tile_width + (k % tile_width),
            i * tile_height + (k \div tile_width))

\* bit (k mod 8) of byte (k div 8) of a key
KeyBit(key, k) == (key.val[k \div 8 + 1] \div (2 ^ (k % 8))) % 2

ColourOfIndex(im, n) == DictGet(COLOR_TABLE, getpalette(im, n), "K")

DifferingPixels(im, i, j) ==
    LET top_left == TilePixel(im, i, j, 0)
    IN {k \in 0..(TilePixels - 1) : TilePixel(im, i, j, k) # top_left}

\* C2 as stated: the key has bit = 1 exactly for the pixels that differ from the
\* top-left pixel, in row-major order, 8 pixels per byte, bit 0 first.
C2_AsStated ==
    pc = "done" =>
        LET D == DifferingPixels(fn_in.im, fn_in.i, fn_in.j)
        IN \A k \in 0..(TilePixels - 1) : KeyBit(fn_out[1].key, k) = 1 <=> k \in D

\* C2 (amended): the key is a byte string of 26 bytes whose bit is 1 exactly for
\* the pixels whose palette index EQUALS that of the tile's top-left pixel (0 for
\* the pixels that differ), in row-major order, 8 pixels per byte, bit 0 first.
C2_KeyBits ==
    pc = "done" =>
        /\ fn_out[1].key.type = "bytes"
        /\ DOMAIN fn_out[1].key.val = 1..26
        /\ LET D == DifferingPixels(fn_in.im, fn_in.i, fn_in.j)
           IN \A k \in 0..(TilePixels - 1) : KeyBit(fn_out[1].key, k) = 1 <=> k \notin D

\* a tile with differing pixels, not in the first row or column of the page
C2_Witness ==
    /\ pc = "done"
    /\ fn_in.i > 0 /\ fn_in.j > 0
    /\ Cardinality(DifferingPixels(fn_in.im, fn_in.i, fn_in.j)) > 1
    /\ KeyBit(fn_out[1].key, 0) = 1 /\ \E k \in 1..(TilePixels - 1) : KeyBit(fn_out[1].key, k) = 0

\* C3: two tiles with the same pattern of equality to their own top-left pixel
\* have the same key, whatever their palette indices and colours.
C3_ColourBlind ==
    pc = "done" =>
        ( DifferingPixels(fn_in.im, fn_in.i, fn_in.j) = DifferingPixels(fn_in.im2, fn_in.i, fn_in.j)
          => fn_out[1].key = fn_out[2].key )

\* the same shape with the two palette indices exchanged
C3_Witness ==
    /\ pc = "done"
    /\ fn_out[1].colors # fn_out[2].colors
    /\ DifferingPixels(fn_in.im, fn_in.i, fn_in.j) = DifferingPixels(fn_in.im2, fn_in.i, fn_in.j)
    /\ DifferingPixels(fn_in.im, fn_in.i, fn_in.j) # {}
    /\ LET k == CHOOSE d \in DifferingPixels(fn_in.im, fn_in.i, fn_in.j) : TRUE
       IN /\ TilePixel(fn_in.im, fn_in.i, fn_in.j, 0) = TilePixel(fn_in.im2, fn_in.i, fn_in.j, k)
          /\ TilePixel(fn_in.im, fn_in.i, fn_in.j, k) = TilePixel(fn_in.im2, fn_in.i, fn_in.j, 0)
    /\ fn_out[1].key = fn_out[2].key

\* C4: colors[0] is the colour of the top-left pixel, colors[1] the colour of the
\* first pixel in row-major order whose palette index differs from it, and
\* colors[1] = colors[0] for a tile without such a pixel.
C4_Colors ==
    pc = "done" =>
        LET D == DifferingPixels(fn_in.im, fn_in.i, fn_in.j)
            first == CHOOSE k \in D : \A m \in D : k <= m
        IN /\ fn_out[1].colors[1] =
                ColourOfIndex(fn_in.im, TilePixel(fn_in.im, fn_in.i, fn_in.j, 0))
           /\ D # {} => fn_out[1].colors[2] =
                ColourOfIndex(fn_in.im, TilePixel(fn_in.im, fn_in.i, fn_in.j, first))
           /\ D = {} => fn_out[1].colors[2] = fn_out[1].colors[1]

\* a tile of three colours: the first differing pixel decides colors[1]
C4_Witness ==
    /\ pc = "done"
    /\ LET D == DifferingPixels(fn_in.im, fn_in.i, fn_in.j)
       IN \E k \in D, m \in D :
             /\ k < m /\ \A n \in D : k <= n
             /\ ColourOfIndex(fn_in.im, TilePixel(fn_in.im, fn_in.i, fn_in.j, k))
                  # ColourOfIndex(fn_in.im, TilePixel(fn_in.im, fn_in.i, fn_in.j, m))
             /\ fn_out[1].colors[2]
                  = ColourOfIndex(fn_in.im, TilePixel(fn_in.im, fn_in.i, fn_in.j, k))
             /\ fn_out[1].colors[2] # fn_out[1].colors[1]

(***************************************************************************)
(* Properties of the Fetcher (Spec).                                       *)
(***************************************************************************)
\* the reference entries in load order, and whether each comes from the shipped corpus
Entries == ShippedTiles \o extratiles_dir.files

loaded == pc \notin {"_read_tile_db", "failed"}

\* the tile get_tiles extracts from a page that carries the entry's pixel pattern
PageTileOf(entry) ==
    make_tile([size |-> PageSize, palette |-> PaletteA, data |-> entry.im.data], 0, 0)

Recognised(fn) ==
    \/ slice(fn, 0, 5) \in { <<"s","l","a","s","h">>, <<"s","l","a","s","T">>,
                             <<"s","l","a","s","B">>, <<"s","h","a","p","e">> }
    \/ slice(fn, 0, 4) \in { <<"c","h","a","r">>, <<"t","o","p","p">>, <<"b","o","t","t">> }

\* C1: every reference entry, shipped or extra, is registered under the key that
\* get_tiles produces for a page tile with the same pixel pattern, and when the
\* entry carries a recognised tag a template is stored under that key, so that
\* such a page tile hits on lookup.
C1_SameKey ==
    loaded =>
        \A n \in 1..Len(Entries) :
            Len(Entries[n].fn) >= 5 =>
                /\ PageTileOf(Entries[n]).key \in db.known_tiles
                /\ Recognised(Entries[n].fn) =>
                       PageTileOf(Entries[n]).key \in DOMAIN db.tile_data

\* C5: get_page on a response with an image that is not 520x400 fails with
\* FetchException and returns nothing, no tile is ever scanned from such an
\* image, and the rows scanned from an accepted image are 25 rows of 40 tiles.
C5_Dimensions ==
    /\ (pc = "ready" /\ calls > 0 /\ \E q \in 1..Len(fn_in) : Images[fn_in[q]].size # PageSize)
           => result = [error |-> "FetchException", value |-> None]
    /\ pc \in {"scan", "merge", "return"} =>
           \A q \in 1..Len(call.subpages) : Images[call.subpages[q]].size = PageSize
    /\ pc = "scan" => Len(parsed_tiless) = call.row_num /\ call.row_num < num_rows
    /\ pc = "merge" => Len(parsed_tiless) = num_rows
    /\ \A r \in 1..Len(parsed_tiless) : Len(parsed_tiless[r]) = num_cols

\* an image of 400x520 was rejected after an earlier page had been decoded
C5_Witness ==
    /\ pc = "ready"
    /\ fn_in = <<"bad">>
    /\ result.error = "FetchException"
    /\ num_unknown_tiles # EmptyDict

\* the row that _scan_row is about to scan
tile_row == raw_tiles[call.subpages[call.subpage_num + 1]].val[call.row_num]

\* columns of tile_row whose key has no template
misses == {c \in 0..(num_cols - 1) : tile_row[c].key \notin DOMAIN db.tile_data}

\* C7: scanning a row never fails; every tile whose key has no template becomes
\* a blank space (char ' ', shape_id 0, DH_FALSE) and the counter of the page
\* grows by the number of such tiles in the row, repeated keys included; the
\* other pages' counters, and the counter of a row without such a tile, do not change.
C7_UnknownTiles ==
    [][pc = "scan" =>
          /\ pc' \in {"scan", "merge"}
          /\ \A c \in misses :
                LET pt == parsed_tiless'[Len(parsed_tiless')][c + 1]
                IN pt.char = " " /\ pt.shape_id = 0 /\ pt.dh_type = DH_FALSE
          /\ \A p \in Pages :
                DictGet(num_unknown_tiles', p, 0) =
                    DictGet(num_unknown_tiles, p, 0)
                    + (IF p = call.page_num THEN Cardinality(misses) ELSE 0)
          /\ misses = {} => num_unknown_tiles' = num_unknown_tiles]_vars

\* row 7 of the page image "pageA", with the same unregistered pattern in two
\* columns, has been scanned
C7_Witness ==
    /\ pc = "scan"
    /\ call.subpages[call.subpage_num + 1] = "pageA"
    /\ call.row_num = 8
    /\ raw_tiles["pageA"].val[7][1].key = raw_tiles["pageA"].val[7][2].key
    /\ raw_tiles["pageA"].val[7][1].key \notin DOMAIN db.tile_data
    /\ num_unknown_tiles[call.page_num] >= 2
    /\ parsed_tiless[8][2].char = " " /\ parsed_tiless[8][3].char = " "

\* the templates of the database
templates == [key \in DOMAIN db.tile_data |-> db.heap[db.tile_data[key]]]

\* C8: a tile whose key has a template resolves to the template's char, shape_id
\* and dh_type with bg_color = colors[0] and fg_color = colors[1] of the tile,
\* and no step after loading changes a template: each keeps its char, shape_id
\* and dh_type and has fg_color = bg_color = None.
C8_Templates ==
    [][loaded =>
          /\ templates' = templates
          /\ \A key \in DOMAIN templates :
                templates'[key].fg_color = None /\ templates'[key].bg_color = None
          /\ (pc = "scan" /\ pc' \in {"scan", "merge"}) =>
                \A c \in (0..(num_cols - 1)) \ misses :
                    parsed_tiless'[Len(parsed_tiless')][c + 1] =
                        [templates[tile_row[c].key] EXCEPT !.bg_color = tile_row[c].colors[1],
                                                           !.fg_color = tile_row[c].colors[2]]
      ]_vars

\* a tile resolved to the character O in white on black, from a template without colours
C8_Witness ==
    /\ pc = "scan"
    /\ call.row_num = 6
    /\ parsed_tiless[6][1] = ParsedTile("O", 0, "W", "K", DH_FALSE)
    /\ \E key \in DOMAIN templates : templates[key] = ParsedTile("O", 0, None, None, DH_FALSE)

(***************************************************************************)
(* Properties of _read_tile_db (SpecLoad).                                 *)
(***************************************************************************)
\* the entries in load order: the shipped corpus, then the extra tiles
LoadEntries == fn_in \o extratiles_dir.files

\* the key the entry carries: bytes in the generated module, Tile.from_tile_im for an extra tile
PoolKeys == [e \in LoadPool |-> [b |-> bytes(onebit_dot(e.im)), t |-> tuple(onebit_dot(e.im))]]

KeyOf(n) == IF n <= Len(fn_in) THEN PoolKeys[LoadEntries[n]].b ELSE PoolKeys[LoadEntries[n]].t

\* the template the tag of a file name stands for
TemplateOf(fn) ==
    LET tag == SubSeq(fn, 1, 4)
        c == fn[5]
    IN CASE tag = <<"c","h","a","r">> -> ParsedTile(c, 0, None, None, DH_FALSE)
         [] tag = <<"t","o","p","p">> -> ParsedTile(c, 0, None, None, DH_TOP)
         [] tag = <<"b","o","t","t">> -> ParsedTile(c, 0, None, None, DH_BOTTOM)
         [] tag = <<"s","l","a","s">> /\ c = "h" -> ParsedTile("/", 0, None, None, DH_FALSE)
         [] tag = <<"s","l","a","s">> /\ c = "T" -> ParsedTile("/", 0, None, None, DH_TOP)
         [] tag = <<"s","l","a","s">> /\ c = "B" -> ParsedTile("/", 0, None, None, DH_BOTTOM)
         [] OTHER -> ParsedTile(None, digits_value(SubSeq(fn, 6, Len(fn) - 4)), None, None, DH_FALSE)

\* the entries handled so far that carry the key of entry n
Carriers(n) == {m \in 1..load_i : KeyOf(m) = KeyOf(n)}

First(S) == CHOOSE m \in S : \A k \in S : m <= k

\* C6 as stated: after the load the template stored under a key is the one derived
\* from the first entry in load order that carries the key.
C6_AsStated ==
    pc = "ready" =>
        \A n \in 1..load_i :
            KeyOf(n) \in DOMAIN db.tile_data =>
                LET fn == LoadEntries[First(Carriers(n))].fn
                IN /\ Len(fn) >= 5 /\ Recognised(fn)
                   /\ templates[KeyOf(n)] = TemplateOf(fn)

\* the carriers of the key of entry n that handle_one does not ignore
LongCarriers(n) == {m \in Carriers(n) : Len(LoadEntries[m].fn) >= 5}

\* C6 (amended): during and after the load, the template stored under a key is the
\* one derived from the first entry in load order that carries the key and whose
\* file name has at least 5 characters; no template is stored under the key when
\* the tag of that entry is not recognised or no such entry exists; so a later
\* entry never replaces or removes a template; and loading fails only on a shape
\* tag without a number, on an entry whose key no earlier such entry carries.
C6_FirstWins ==
    /\ pc # "failed" =>
          /\ \A n \in 1..load_i :
                IF LongCarriers(n) = {}
                THEN KeyOf(n) \notin db.known_tiles /\ KeyOf(n) \notin DOMAIN db.tile_data
                ELSE LET fn == LoadEntries[First(LongCarriers(n))].fn
                     IN /\ KeyOf(n) \in db.known_tiles
                        /\ KeyOf(n) \in DOMAIN db.tile_data <=> Recognised(fn)
                        /\ Recognised(fn) => templates[KeyOf(n)] = TemplateOf(fn)
          /\ \A key \in DOMAIN db.tile_data : \E n \in 1..load_i : KeyOf(n) = key
    /\ pc = "failed" =>
          LET fn == LoadEntries[load_i].fn
          IN /\ Len(fn) >= 5
             /\ slice(fn, 0, 5) = <<"s","h","a","p","e">>
             /\ int(slice(fn, 5, -4)).err = "ValueError"
             /\ First(LongCarriers(load_i)) = load_i

\* two entries with the same key and different recognised tags were loaded, and
\* the template of the first is the one stored
C6_Witness ==
    /\ pc = "ready"
    /\ \E m \in 1..load_i, n \in 1..load_i :
          /\ m < n /\ KeyOf(m) = KeyOf(n) /\ m = First(LongCarriers(n))
          /\ Recognised(LoadEntries[m].fn) /\ Recognised(LoadEntries[n].fn)
          /\ TemplateOf(LoadEntries[m].fn) # TemplateOf(LoadEntries[n].fn)
          /\ templates[KeyOf(n)] = TemplateOf(LoadEntries[m].fn)

(***************************************************************************)
(* Properties of merge_rows (SpecMerge).                                   *)
(***************************************************************************)
is_top_row(row) == \E c \in 1..Len(row) : row[c].dh_type = DH_TOP

is_bottom_row(row) == \E c \in 1..Len(row) : row[c].dh_type = DH_BOTTOM

\* the indices of the input rows that are not top-half rows, and the k-th of them
KeptRows == {i \in 1..Len(fn_in) : ~is_top_row(fn_in[i])}

Kept(k) == CHOOSE i \in KeptRows : Cardinality({j \in KeptRows : j < i}) = k - 1

\* C9: when merge_rows succeeds, its output is the input rows in order without
\* the top-half rows, each bottom-half row replaced by its column-by-column
\* merge_doubleheight with the input row just before it and every other row
\* unchanged; so it has as many rows as the input has rows that are not top-half rows.
C9_MergeRows ==
    (pc = "done" /\ fn_out.err = None) =>
        /\ Len(fn_out.val) = Len(fn_in) - Cardinality({i \in 1..Len(fn_in) : is_top_row(fn_in[i])})
        /\ \A k \in 1..Len(fn_out.val) :
              LET i == Kept(k) IN
              IF is_bottom_row(fn_in[i])
              THEN /\ i > 1
                   /\ Len(fn_out.val[k]) = Len(fn_in[i])
                   /\ \A c \in 1..Len(fn_in[i]) :
                         fn_out.val[k][c] = merge_doubleheight(fn_in[i - 1][c], fn_in[i][c]).val
              ELSE fn_out.val[k] = fn_in[i]

\* a grid with a top-half row, its bottom-half row and a row of neither kind was merged
C9_Witness ==
    /\ pc = "done" /\ fn_out.err = None
    /\ \E i \in 1..(Len(fn_in) - 1) : is_top_row(fn_in[i]) /\ is_bottom_row(fn_in[i + 1])
    /\ \E i \in 1..Len(fn_in) : ~is_top_row(fn_in[i]) /\ ~is_bottom_row(fn_in[i])
    /\ \E k \in 1..Len(fn_out.val) : fn_out.val[k][1].dh_type = DH_TRUE
    /\ Len(fn_out.val) < Len(fn_in)

\* C10: when the first row has a bottom-half tile and no top-half tile,
\* merge_rows fails with AssertionError and returns no grid.
C10_BottomFirst ==
    (pc = "done" /\ Len(fn_in) > 0 /\ is_bottom_row(fn_in[1]) /\ ~is_top_row(fn_in[1]))
        => fn_out = AssertionError

\* a grid of several rows whose first row is a bottom-half row was refused
C10_Witness ==
    /\ pc = "done"
    /\ Len(fn_in) > 1 /\ is_bottom_row(fn_in[1]) /\ ~is_top_row(fn_in[1])
    /\ \A i \in 2..Len(fn_in) : ~is_bottom_row(fn_in[i])
    /\ fn_out.err = "AssertionError"

(***************************************************************************)
(* Properties of merge_doubleheight (SpecDH).                              *)
(***************************************************************************)
\* the call returned the tile v / raised AssertionError
Returned(r, v) == r.err = None /\ r.val = v

Raised(r) == r.err = "AssertionError" /\ r.val = None

\* C11 as stated: merging any tile with itself succeeds and returns the tile
\* with dh_type = DH_TRUE and everything else unchanged.
C11_AsStated ==
    (pc = "done" /\ fn_in.top = fn_in.bottom) =>
        Returned(fn_out.merged, [fn_in.top EXCEPT !.dh_type = DH_TRUE])

\* C11 (amended): merging a tile with itself succeeds, and returns the tile with
\* dh_type = DH_TRUE and char, shape_id and colours unchanged, when the tile is
\* a blank space or a shape (shape_id > 0); for every other tile (a non-space
\* character of any dh_type) it fails with AssertionError.
C11_SelfMerge ==
    (pc = "done" /\ fn_in.top = fn_in.bottom) =>
        IF fn_in.top.char = " " \/ fn_in.top.shape_id > 0
        THEN Returned(fn_out.merged, [fn_in.top EXCEPT !.dh_type = DH_TRUE])
        ELSE Raised(fn_out.merged)

\* a shape recorded without a role was merged with itself
C11_Witness ==
    /\ pc = "done"
    /\ fn_in.top = fn_in.bottom
    /\ fn_in.top.shape_id = 21 /\ fn_in.top.dh_type = DH_FALSE
    /\ fn_out.merged.err = None /\ fn_out.merged.val.dh_type = DH_TRUE
    /\ fn_out.merged.val.shape_id = 21

\* the halves the placeholder rule is about: equal background, no shape,
\* different characters, the pair not in sub_map
Unmatched ==
    /\ fn_in.top.bg_color = fn_in.bottom.bg_color
    /\ fn_in.top.shape_id = 0 /\ fn_in.bottom.shape_id = 0
    /\ fn_in.top.char # fn_in.bottom.char
    /\ (fn_in.top.char \o fn_in.bottom.char) \notin DOMAIN sub_map

PlaceHolder == "(" \o fn_in.top.char \o "," \o fn_in.bottom.char \o ")"

\* C12 as stated: for such halves merge_doubleheight does not fail and returns
\* a tile with dh_type = DH_TRUE whose char is '(top,bottom)'.
C12_AsStated ==
    (pc = "done" /\ Unmatched) =>
        /\ fn_out.merged.err = None
        /\ fn_out.merged.val.dh_type = DH_TRUE
        /\ fn_out.merged.val.char = PlaceHolder

\* the roles and foreground colours merge_doubleheight asserts before the table is looked at
RolesAndColoursMatch ==
    /\ fn_in.top.char # " " => fn_in.top.dh_type = DH_TOP
    /\ fn_in.bottom.char # " " => fn_in.bottom.dh_type = DH_BOTTOM
    /\ (fn_in.top.char # " " /\ fn_in.bottom.char # " ")
          => fn_in.top.fg_color = fn_in.bottom.fg_color

\* C12 (amended): for such halves, when moreover every non-space half is recorded
\* with its role (DH_TOP for the top, DH_BOTTOM for the bottom) and two non-space
\* halves have the same fg_color, merge_doubleheight does not fail and returns a
\* tile with dh_type = DH_TRUE whose char is '(top,bottom)'; when a role or the
\* foreground colours do not match it fails with AssertionError.
C12_PlaceHolder ==
    (pc = "done" /\ Unmatched) =>
        IF RolesAndColoursMatch
        THEN /\ fn_out.merged.err = None
             /\ fn_out.merged.val.dh_type = DH_TRUE
             /\ fn_out.merged.val.char = PlaceHolder
        ELSE Raised(fn_out.merged)

\* the halves 'a' and 'F' gave the placeholder (a,F)
C12_Witness ==
    /\ pc = "done"
    /\ Unmatched
    /\ fn_in.top.char = "a" /\ fn_in.bottom.char = "F"
    /\ fn_out.merged.err = None
    /\ fn_out.merged.val.char = "(a,F)"

\* the cases in which C15 says the merge fails
C15_Case ==
    \/ fn_in.top.bg_color # fn_in.bottom.bg_color
    \/ /\ fn_in.top.char # " " /\ fn_in.bottom.char # " "
       /\ fn_in.top.fg_color # fn_in.bottom.fg_color
    \/ (fn_in.top.shape_id > 0) # (fn_in.bottom.shape_id > 0)
    \/ /\ fn_in.top.shape_id > 0 /\ fn_in.bottom.shape_id > 0
       /\ fn_in.top.shape_id # fn_in.bottom.shape_id
    \/ fn_in.top.char # " " /\ fn_in.top.shape_id = 0 /\ fn_in.top.dh_type # DH_TOP
    \/ fn_in.bottom.char # " " /\ fn_in.bottom.shape_id = 0 /\ fn_in.bottom.dh_type # DH_BOTTOM

\* C15: merge_doubleheight fails with AssertionError and gives no tile when the
\* halves differ in bg_color, or both are non-space and differ in fg_color, or
\* exactly one is a shape, or both are shapes of different shape_id, or a non-space
\* character half is not recorded with its role; and merge_rows of a grid in
\* which the bottom half stands in a bottom-half row then fails too, with no grid.
C15_MergeFails ==
    (pc = "done" /\ C15_Case) =>
        /\ Raised(fn_out.merged)
        /\ fn_in.bottom.dh_type = DH_BOTTOM => Raised(fn_out.grid)

\* two letters of different foreground colours, recorded as top and bottom half
C15_Witness ==
    /\ pc = "done"
    /\ fn_in.top.bg_color = fn_in.bottom.bg_color
    /\ fn_in.top.char = "a" /\ fn_in.bottom.char = "a"
    /\ fn_in.top.dh_type = DH_TOP /\ fn_in.bottom.dh_type = DH_BOTTOM
    /\ fn_in.top.fg_color # fn_in.bottom.fg_color
    /\ fn_out.merged.err = "AssertionError" /\ fn_out.grid.err = "AssertionError"

(***************************************************************************)
(* Properties of the glyphs and of invert_shape (SpecGlyph, SpecInvert).   *)
(***************************************************************************)
\* C13: in each display mode two different shape ids of 0..63 get different
\* glyphs; in block mode the ids 0, 21, 42, 63 get the space, the left half
\* block, the right half block and the full block, and every other id one of the
\* 60 2x3 box elements U+1FB00..U+1FB3B.
C13_Injective ==
    pc = "done" =>
        /\ fn_in.x # fn_in.y => fn_out[1] # fn_out[2]
        /\ Len(fn_out[1]) = 1
        /\ ~fn_in.braille =>
              CASE fn_in.x = 0  -> fn_out[1] = <<32>>
                [] fn_in.x = 21 -> fn_out[1] = <<9612>>
                [] fn_in.x = 42 -> fn_out[1] = <<9616>>
                [] fn_in.x = 63 -> fn_out[1] = <<9608>>
                [] OTHER -> fn_out[1][1] \in 129792..129851

\* the ids 20 and 22, on the two sides of the gap at 21, in block mode
C13_Witness ==
    /\ pc = "done"
    /\ ~fn_in.braille
    /\ fn_in.x = 20 /\ fn_in.y = 22
    /\ fn_out[2][1] = fn_out[1][1] + 1

\* C14: invert_shape applied twice gives back the shape_id, and with the
\* default argument also fg_color and bg_color.
C14_Involution ==
    pc = "twice" =>
        /\ fn_out.shape_id = fn_in.pt.shape_id
        /\ fn_in.newbg = None =>
              fn_out.fg_color = fn_in.pt.fg_color /\ fn_out.bg_color = fn_in.pt.bg_color

\* a shape of two different colours inverted twice with the default argument
C14_Witness ==
    /\ pc = "twice"
    /\ fn_in.newbg = None
    /\ fn_in.pt.shape_id = 5
    /\ fn_in.pt.fg_color # fn_in.pt.bg_color
    /\ fn_out = fn_in.pt

(***************************************************************************)
(* Top-half rows that merge_rows drops (SpecMerge).                        *)
(***************************************************************************)
\* C16: when merge_rows succeeds, every top-half row of the input, which is
\* absent from the output, is followed directly by a bottom-half row, whose
\* merged row is built from it; no top-half row is dropped without a merge.
C16_TopConsumed ==
    (pc = "done" /\ fn_out.err = None) =>
        \A i \in 1..Len(fn_in) :
            is_top_row(fn_in[i]) => /\ i < Len(fn_in)
                                    /\ is_bottom_row(fn_in[i + 1])

(***************************************************************************)
(* The diagnostic at the end of get_page (Spec).                           *)
(***************************************************************************)
\* the tiles of the page being returned whose key has no template
decode_misses ==
    Cardinality({t \in (1..Len(call.subpages)) \X (0..(num_rows - 1)) \X (0..(num_cols - 1)) :
                    raw_tiles[call.subpages[t[1]]].val[t[2]][t[3]].key \notin DOMAIN db.tile_data})

\* C17: at the end of every get_page the diagnostic names the page with the
\* number of tiles of this decode whose key missed the lookup, and nothing is
\* written when this decode had no such tile.
C17_Diagnostic ==
    [][pc = "return" =>
          stderr' = IF decode_misses > 0
                    THEN Append(stderr, [msg |-> "unknown tiles", page |-> call.page_num,
                                         n |-> decode_misses])
                    ELSE stderr]_vars

(***************************************************************************)
(* Properties of fgbg_fixups and remove_fg_back_and_forth (SpecRender).    *)
(***************************************************************************)
\* the tile the next iteration of fgbg_fixups looks at, and the same tile after it
Cur ==
    LET at == row_major(fn_out.parsed_tiless)
    IN fn_out.parsed_tiless[at[fn_out.k][1]][at[fn_out.k][2]]

Fixed ==
    LET at == row_major(fn_out.parsed_tiless)
    IN fn_out'.parsed_tiless[at[fn_out.k][1]][at[fn_out.k][2]]

\* pt with its colours exchanged and its shape complemented
Swapped(pt) ==
    [char |-> IF MaxShapeId - pt.shape_id = 0 THEN " " ELSE None,
     shape_id |-> MaxShapeId - pt.shape_id,
     fg_color |-> pt.bg_color, bg_color |-> pt.fg_color, dh_type |-> pt.dh_type]

\* C18 as stated: a non-space shape tile is inverted when its foreground is
\* black, its background is white, or its background is yellow with a black
\* foreground, and is left unchanged otherwise; a character tile is never modified.
C18_AsStated ==
    [][pc = "fgbg_fixups" =>
          /\ (Cur.shape_id > 0 /\ Cur.char # " ") =>
                IF \/ Cur.fg_color = "K"
                   \/ Cur.bg_color = "W"
                   \/ (Cur.bg_color = "Y" /\ Cur.fg_color = "K")
                THEN Fixed = Swapped(Cur)
                ELSE Fixed = Cur
          /\ (Cur.shape_id = 0 /\ Cur.char # " ") => Fixed = Cur]_vars

\* C18: a non-space shape tile is inverted when its foreground is black, its
\* background is white, or its background is yellow with a blue foreground,
\* and is left unchanged otherwise; a character tile is never modified.
C18_Fixups ==
    [][pc = "fgbg_fixups" =>
          /\ (Cur.shape_id > 0 /\ Cur.char # " ") =>
                IF \/ Cur.fg_color = "K"
                   \/ Cur.bg_color = "W"
                   \/ (Cur.bg_color = "Y" /\ Cur.fg_color = "B")
                THEN Fixed = Swapped(Cur)
                ELSE Fixed = Cur
          /\ (Cur.shape_id = 0 /\ Cur.char # " ") => Fixed = Cur]_vars

\* fgbg_fixups has run over a row of a blue-on-yellow shape, now inverted, a
\* white-on-black shape and a black-on-white character, both as they were
C18_Witness ==
    /\ pc = "remove_fg_back_and_forth"
    /\ fn_in.parsed_tiless = << << ParsedTile(None, 21, "B", "Y", DH_FALSE),
                                   ParsedTile(None, 42, "W", "K", DH_FALSE),
                                   ParsedTile("a", 0, "K", "W", DH_TRUE) >> >>
    /\ fn_out.parsed_tiless = << << ParsedTile(None, 42, "Y", "B", DH_FALSE),
                                    ParsedTile(None, 42, "W", "K", DH_FALSE),
                                    ParsedTile("a", 0, "K", "W", DH_TRUE) >> >>

\* C19: lastbg is 'K' before the first tile of the subpage; after a tile it is
\* the tile's bg_color if the tile is a blank that was not inverted, and is
\* what it was before otherwise.
C19_LastBg ==
    [][pc = "fgbg_fixups" =>
          /\ fn_out.k = 1 => fn_out.lastbg = "K"
          /\ fn_out'.lastbg = IF Cur.char = " " /\ Fixed = Cur THEN Cur.bg_color
                              ELSE fn_out.lastbg]_vars

\* a blank on blue in the first row set lastbg, the yellow blank that opens the
\* second row was inverted onto it without changing it, and so was a shape
C19_Witness ==
    /\ pc = "remove_fg_back_and_forth"
    /\ Len(fn_in.parsed_tiless) = 2
    /\ fn_in.parsed_tiless[1] = << ParsedTile(" ", 0, "W", "B", DH_FALSE) >>
    /\ fn_in.parsed_tiless[2] = << ParsedTile(" ", 0, "W", "Y", DH_FALSE),
                                   ParsedTile(None, 5, "K", "R", DH_FALSE) >>
    /\ fn_out.parsed_tiless[2][1] = ParsedTile(None, MaxShapeId, "Y", "B", DH_FALSE)
    /\ fn_out.parsed_tiless[2][2].fg_color = "R"
    /\ fn_out.lastbg = "B"

\* the tile at column c of row r is a blank between two non-space tiles of one fg_color
Flanked(r, c) ==
    LET parsed_tiles == fn_out.parsed_tiless[r] IN
    /\ c > 1 /\ c < Len(parsed_tiles)
    /\ parsed_tiles[c].char = " "
    /\ parsed_tiles[c - 1].char # " " /\ parsed_tiles[c + 1].char # " "
    /\ parsed_tiles[c - 1].fg_color = parsed_tiles[c + 1].fg_color

\* C20: remove_fg_back_and_forth gives a blank between two non-space tiles of
\* its row that have the same fg_color the fg_color of the tile after it, and
\* changes nothing else: no other tile and no other attribute.
C20_BackAndForth ==
    [][pc = "remove_fg_back_and_forth" =>
          /\ Len(fn_out'.parsed_tiless) = Len(fn_out.parsed_tiless)
          /\ \A r \in 1..Len(fn_out.parsed_tiless) :
                /\ Len(fn_out'.parsed_tiless[r]) = Len(fn_out.parsed_tiless[r])
                /\ \A c \in 1..Len(fn_out.parsed_tiless[r]) :
                      fn_out'.parsed_tiless[r][c] =
                          IF Flanked(r, c)
                          THEN [fn_out.parsed_tiless[r][c] EXCEPT
                                    !.fg_color = fn_out.parsed_tiless[r][c + 1].fg_color]
                          ELSE fn_out.parsed_tiless[r][c]]_vars

\* a blank that fgbg_fixups left alone stands between two non-space tiles and has
\* taken their fg_color, which it did not have, and has kept its bg_color
C20_Witness ==
    /\ pc = "apply_shapes"
    /\ \E r \in 1..Len(fn_out.parsed_tiless) :
          /\ Len(fn_out.parsed_tiless[r]) = 3
          /\ fn_in.parsed_tiless[r][2].char = " "
          /\ fn_out.parsed_tiless[r][2].char = " "
          /\ fn_out.parsed_tiless[r][1].char # " " /\ fn_out.parsed_tiless[r][3].char # " "
          /\ fn_out.parsed_tiless[r][2].fg_color # fn_in.parsed_tiless[r][2].fg_color
          /\ fn_out.parsed_tiless[r][2].fg_color = fn_out.parsed_tiless[r][3].fg_color
          /\ fn_out.parsed_tiless[r][2].bg_color = fn_in.parsed_tiless[r][2].bg_color

(***************************************************************************)
(* The colours fgbg_fixups leaves (SpecFixups).                            *)
(***************************************************************************)
\* the tiles of a grid in row-major order
flat(tiless) == [p \in 1..Len(row_major(tiless)) |->
                    tiless[row_major(tiless)[p][1]][row_major(tiless)[p][2]]]

\* every shape tile given to fgbg_fixups has two different colours
TwoColoured ==
    \A p \in 1..Len(flat(fn_in.parsed_tiless)) :
        LET pt == flat(fn_in.parsed_tiless)[p]
        IN pt.shape_id > 0 => pt.fg_color # pt.bg_color

\* on this page a blank on white can reach the rule that inverts it onto lastbg
WhiteRulePage ==
    /\ fn_in.page \notin {129, 149}
    /\ ~(fn_in.page = 777 /\ fn_in.subpageid < 2)

\* C21: if every shape tile of the grid has fg_color different from bg_color,
\* every tile fgbg_fixups has gone over that has shape_id > 0, the full blocks
\* made of blanks included, has fg_color not black and bg_color not white;
\* and on a page where the white-background rule can fire lastbg is never white.
C21_Colours ==
    pc \in {"fgbg_fixups", "remove_fg_back_and_forth"} =>
        /\ TwoColoured =>
              \A p \in 1..(fn_out.k - 1) :
                  LET pt == flat(fn_out.parsed_tiless)[p]
                  IN pt.shape_id > 0 => pt.fg_color # "K" /\ pt.bg_color # "W"
        /\ WhiteRulePage => fn_out.lastbg # "W"

\* on page 100 a blank on blue set lastbg and a blank on white after it became
\* a white full block on blue
C21_Witness ==
    /\ pc = "remove_fg_back_and_forth"
    /\ fn_in.page = 100
    /\ TwoColoured
    /\ flat(fn_in.parsed_tiless) = << ParsedTile(" ", 0, "K", "B", DH_FALSE),
                                      ParsedTile(" ", 0, "K", "W", DH_FALSE) >>
    /\ flat(fn_out.parsed_tiless) = << ParsedTile(" ", 0, "K", "B", DH_FALSE),
                                       ParsedTile(None, MaxShapeId, "W", "B", DH_FALSE) >>
    /\ fn_out.lastbg = "B"

(***************************************************************************)
(* The rows merge_rows returns (SpecMerge).                                *)
(***************************************************************************)
\* C22: whenever merge_rows returns, every tile of the grid returned has
\* dh_type DH_FALSE or DH_TRUE, none DH_TOP or DH_BOTTOM, and every row
\* returned has as many tiles as the rows given.
C22_NoHalves ==
    (pc = "done" /\ fn_out.err = None) =>
        \A k \in 1..Len(fn_out.val) :
            /\ \A i \in 1..Len(fn_in) : Len(fn_out.val[k]) = Len(fn_in[i])
            /\ \A c \in 1..Len(fn_out.val[k]) :
                  fn_out.val[k][c].dh_type \in {DH_FALSE, DH_TRUE}

\* an ordinary row, a top-half row and its bottom-half row came back as two
\* rows: the first as it was, the second merged in every column, blanks included
C22_Witness ==
    /\ pc = "done" /\ fn_out.err = None
    /\ fn_in = << MergeRow("plain"), MergeRow("top"), MergeRow("bottom") >>
    /\ Len(fn_out.val) = 2
    /\ \A c \in 1..MaxCols : fn_out.val[1][c].dh_type = DH_FALSE
    /\ \A c \in 1..MaxCols : fn_out.val[2][c].dh_type = DH_TRUE
    /\ fn_out.val[2][1].char = "A"

====
